---- MODULE Spec2Model ----
(***************************************************************************)
(* A model of the prediction-markets arbitrage repository: the arbitrage   *)
(* detector (src/pm_arb/arbitrage_detector.py), the matched-pair store     *)
(* (src/pm_arb/sql_storage.py) and the market matcher                      *)
(* (src/pm_arb/matcher.py).                                                *)
(*                                                                         *)
(* Numbers.  Prices, profits, similarities and scores are Python floats in *)
(* the source.  The model keeps them as fixed-point integers in thousandths*)
(* (0.40 is 400, 1.0 is 1000, 0.001 is 1): every price and threshold the   *)
(* model draws is a multiple of 0.001, so sums and differences are exact.  *)
(* Rounding error of binary floating point is outside the model.           *)
(*                                                                         *)
(* Optional values.  Python's None is the empty sequence and a present     *)
(* value v is the one-element sequence <<v>>.                              *)
(***************************************************************************)
EXTENDS Integers, Sequences, FiniteSets, TLC

VARIABLES
    \* ---- ArbitrageDetector instance and the session it reads
    markets_dict,           \* self.markets_dict: key -> None | Some(market)
    min_similarity,         \* self.min_similarity
    min_profit_threshold,   \* self.min_profit_threshold
    session_rows,           \* rows of matched_market_pairs in the session
    last_call,              \* the last operation and its arguments
    result,                 \* what that operation returned
    registered,             \* history: key -> market last handed over under it
    overwrote,              \* history: a registration replaced another market
    \* ---- one application of _calculate_both_sides_opportunity
    calc_in,                \* the pair, its four contracts and the threshold
    calc_out,               \* "pending", or the Optional opportunity returned
    \* ---- the matched_market_pairs table of sql_storage.py
    store_rows,             \* the rows, in id order
    store_clock,            \* the latest datetime.utcnow() reading
    store_call,             \* the last storage call and its arguments
    \* ---- one application of MarketMatcher.find_matches
    match_in,               \* markets_a, markets_b, cross_source_only
    match_out,              \* "pending", or the outcome of the call
    \* ---- one MarketMatcher and one match_single_pair call on it
    matcher_args,           \* the arguments given to MarketMatcher(...)
    matcher,                \* not built yet, built (its fields), or raised
    pair_in,                \* market_a, market_b
    pair_out,               \* "pending", or the outcome of the call
    \* ---- two MatcherClassifier instances and the file they save to
    clf_in,                 \* the labelled pairs and what fitting them yields
    clf,                    \* instance -> its model, scaler and is_fitted
    clf_file,               \* None, or Some of the bytes of the file
    clf_call,               \* the last call, its arguments and its outcome
    clf_saved,              \* history: the instance as it was when saved
    clf_ok,                 \* history: instance -> a train or load succeeded
    \* ---- one pair of markets and what the matcher computes for it
    score_in,               \* market_a, market_b
    score_out,              \* the last computation and its value
    \* ---- one application of ArbitrageDetector._analyze_pair
    analyze_in,             \* the two registered markets and the pair
    analyze_out,            \* "pending", or the opportunities returned
    \* ---- two ArbitrageDetector instances and the dict objects they hold
    share_heap,             \* dict object -> the dict it holds now
    share_det,              \* detector -> the dict object of self.markets_dict
    share_call,             \* the last call, its arguments and its result
    \* ---- the markets table of sql_storage.py
    mkt_rows,               \* (source, market_id) stored -> the row's fields
    mkt_latest,             \* history: key -> the market last saved under it
    mkt_call,               \* the last save_market call and its outcome
    \* ---- concurrent callers of one MarketMatcher / MatcherClassifier
    thr_vectorizer,         \* self._vectorizer: None, or the names it was fitted on
    thr_call,               \* thread -> the call it makes
    thr_pc,                 \* thread -> where it is in its call
    thr_out                 \* thread -> what its call returned or raised

detector_vars == <<markets_dict, min_similarity, min_profit_threshold,
                   session_rows, last_call, result, registered, overwrote>>
calc_vars == <<calc_in, calc_out>>
store_vars == <<store_rows, store_clock, store_call>>
match_vars == <<match_in, match_out>>
pair_vars == <<matcher_args, matcher, pair_in, pair_out>>
clf_vars == <<clf_in, clf, clf_file, clf_call, clf_saved, clf_ok>>
score_vars == <<score_in, score_out>>
core_vars == <<detector_vars, calc_vars, store_vars, match_vars, pair_vars, clf_vars>>
analyze_vars == <<analyze_in, analyze_out>>
share_vars == <<share_heap, share_det, share_call>>
mkt_vars == <<mkt_rows, mkt_latest, mkt_call>>
thr_vars == <<thr_vectorizer, thr_call, thr_pc, thr_out>>
rest_vars == <<score_vars, analyze_vars, share_vars, mkt_vars, thr_vars>>
vars == <<core_vars, rest_vars>>

----------------------------------------------------------------------------
(* Python values                                                            *)

None == <<>>
Some(v) == <<v>>

\* bool(x) of an Optional[float]: None and 0.0 are both falsy.
Truthy(x) == x # None /\ x[1] # 0

\* `a or b` on Optional[float].
PyOr(a, b) == IF Truthy(a) THEN a ELSE b

\* bool(x) of an Optional[object] (dataclass instances are always truthy).
IsObj(x) == x # None

Min2(a, b) == IF a <= b THEN a ELSE b

\* s[:n] for a Python list s and an int n (a negative n counts from the end).
PySliceTo(s, n) ==
    IF n >= 0
    THEN SubSeq(s, 1, Min2(n, Len(s)))
    ELSE IF Len(s) + n > 0 THEN SubSeq(s, 1, Len(s) + n) ELSE << >>

\* str.upper() on the side labels the model uses.
Upper(s) ==
    CASE s = "yes" -> "YES"
      [] s = "no"  -> "NO"
      [] s = "a"   -> "A"
      [] OTHER     -> s

----------------------------------------------------------------------------
(* Fixed-point constants of arbitrage_detector.py                           *)

\* guaranteed_return = 1.0, and the upper end of a valid probability.
One == 1000

\* is_arb = min_profit > 0.001
ArbTolerance == 1

\* min_profit_threshold default 0.01
DefaultMinProfit == 10

\* min_similarity default 0.70
DefaultMinSimilarity == 700

----------------------------------------------------------------------------
(* api/models.py: the records the detector reads                            *)

UnifiedContract(cid, side, otype, ask, last) ==
    [contract_id |-> cid, side |-> side, outcome_type |-> otype,
     price_ask |-> ask, last_price |-> last]

UnifiedMarket(source, mid, contracts) ==
    [source |-> source, market_id |-> mid, contracts |-> contracts]

\* A row of matched_market_pairs, as the detector reads it.
MatchedPair(id, sa, ma, sb, mb, sim) ==
    [id |-> id, source_a |-> sa, market_id_a |-> ma,
     source_b |-> sb, market_id_b |-> mb, similarity |-> sim]

KeyOf(source, mid) == <<source, mid>>

----------------------------------------------------------------------------
(* ArbitrageDetector: the per-pair analysis                                 *)

\* binary_contracts = [c for c in market.contracts
\*                     if c.outcome_type == "binary" and c.side in ("YES","NO")]
BinaryContractIdx(market) ==
    {i \in 1..Len(market.contracts) :
        /\ market.contracts[i].outcome_type = "binary"
        /\ market.contracts[i].side \in {"YES", "NO"}}

is_binary_market(market) ==
    IF Len(market.contracts) = 0
    THEN FALSE
    ELSE Cardinality(BinaryContractIdx(market)) >= 2

\* The loop of _extract_binary_contracts over contracts[i..]: acc is
\* <<yes_contract, no_contract>>, each None or Some(contract).
RECURSIVE ExtractFrom(_, _, _)
ExtractFrom(contracts, i, acc) ==
    IF i > Len(contracts)
    THEN acc
    ELSE LET c == contracts[i] IN
         IF Upper(c.side) = "YES"
         THEN ExtractFrom(contracts, i + 1, <<Some(c), acc[2]>>)
         ELSE IF Upper(c.side) = "NO"
              THEN ExtractFrom(contracts, i + 1, <<acc[1], Some(c)>>)
              ELSE ExtractFrom(contracts, i + 1, acc)

extract_binary_contracts(market) ==
    ExtractFrom(market.contracts, 1, <<None, None>>)

\* price_ask or last_price
EffectivePrice(c) == PyOr(c.price_ask, c.last_price)

\* (mutant) market B wins a tie
CheaperLeg_TieToB(a_p, b_p) ==
    IF a_p < b_p THEN [price |-> a_p, source |-> "A"]
                 ELSE [price |-> b_p, source |-> "B"]

\* The cheaper of the two markets for one leg; market A on a tie.
CheaperLeg(a_p, b_p) ==
    IF a_p <= b_p THEN [price |-> a_p, source |-> "A"]
                  ELSE [price |-> b_p, source |-> "B"]

\* roi_pct = (min_profit / total_investment * 100) if total_investment > 0
\* else 0, kept as the exact fraction num/den of a percentage.
RoiPct(min_profit, total_investment) ==
    IF total_investment > 0
    THEN [num |-> min_profit * 100, den |-> total_investment]
    ELSE [num |-> 0, den |-> 1]

\* (mutant) no tolerance: any positive profit is arbitrage
IsArb_NoTolerance(min_profit) == min_profit > 0

IsArb(min_profit) == min_profit > ArbTolerance

\* (mutant) a profit equal to the threshold is discarded too
BelowThreshold_Inclusive(min_profit, threshold) == min_profit <= threshold

\* (mutant) no profit is under the threshold
BelowThreshold_Never(min_profit, threshold) == FALSE

\* if min_profit < self.min_profit_threshold: return None
BelowThreshold(min_profit, threshold) == min_profit < threshold

\* _calculate_both_sides_opportunity: None or Some(ArbitrageOpportunity).
calculate_both_sides_opportunity(pair, yes_a, no_a, yes_b, no_b, threshold) ==
    LET yes_a_price == EffectivePrice(yes_a)
        no_a_price  == EffectivePrice(no_a)
        yes_b_price == EffectivePrice(yes_b)
        no_b_price  == EffectivePrice(no_b)
        prices == <<yes_a_price, no_a_price, yes_b_price, no_b_price>>
    IN
    IF ~(\A i \in 1..4 : Truthy(prices[i]))
    THEN None
    ELSE IF ~(\A i \in 1..4 : 0 <= prices[i][1] /\ prices[i][1] <= One)
    THEN None
    ELSE
    LET yes_leg == CheaperLeg(yes_a_price[1], yes_b_price[1])
        no_leg  == CheaperLeg(no_a_price[1], no_b_price[1])
        total_investment == yes_leg.price + no_leg.price
        profit_if_yes == One - (yes_leg.price + no_leg.price)
        profit_if_no  == One - (yes_leg.price + no_leg.price)
        min_profit == profit_if_yes
        max_profit == profit_if_yes
        is_arb == IsArb(min_profit)
    IN
    IF BelowThreshold(min_profit, threshold)
    THEN None
    ELSE Some([
        source_a |-> pair.source_a, market_id_a |-> pair.market_id_a,
        source_b |-> pair.source_b, market_id_b |-> pair.market_id_b,
        yes_contract_a |-> yes_a, no_contract_a |-> no_a,
        yes_contract_b |-> yes_b, no_contract_b |-> no_b,
        profit_if_yes |-> profit_if_yes, profit_if_no |-> profit_if_no,
        min_profit |-> min_profit, max_profit |-> max_profit,
        roi_pct |-> RoiPct(min_profit, total_investment),
        total_investment |-> total_investment,
        match_similarity |-> pair.similarity,
        is_arbitrage |-> is_arb,
        is_scalp |-> FALSE,
        break_even_spread |-> total_investment - One,
        arbitrage_type |-> IF is_arb THEN "both_sides" ELSE "hedge",
        notes |-> [yes_source |-> yes_leg.source, yes_price |-> yes_leg.price,
                   no_source |-> no_leg.source, no_price |-> no_leg.price],
        matched_pair_id |-> pair.id])

\* self.markets_dict.get(key): a dict is a function on the keys it holds.
DictGet(dict, key) == IF key \in DOMAIN dict THEN Some(dict[key]) ELSE None

\* _analyze_pair: the list of opportunities of one pair.
analyze_pair(dict, pair, threshold) ==
    LET market_a == DictGet(dict, KeyOf(pair.source_a, pair.market_id_a))
        market_b == DictGet(dict, KeyOf(pair.source_b, pair.market_id_b))
    IN
    IF ~IsObj(market_a) \/ ~IsObj(market_b)
    THEN << >>
    ELSE IF ~is_binary_market(market_a[1]) \/ ~is_binary_market(market_b[1])
    THEN << >>
    ELSE
    LET ea == extract_binary_contracts(market_a[1])
        eb == extract_binary_contracts(market_b[1])
    IN
    IF ~(IsObj(ea[1]) /\ IsObj(ea[2]) /\ IsObj(eb[1]) /\ IsObj(eb[2]))
    THEN << >>
    ELSE
    LET opp == calculate_both_sides_opportunity(
                   pair, ea[1][1], ea[2][1], eb[1][1], eb[2][1], threshold)
    IN IF IsObj(opp) THEN <<opp[1]>> ELSE << >>

----------------------------------------------------------------------------
(* SpecCalc: one application of _calculate_both_sides_opportunity to every  *)
(* combination of quotes drawn from the sets below.                         *)

\* Ask quotes of the four contracts.  They hold the worked example of the
\* tests (A 0.40/0.60, B 0.65/0.30), ties between the markets, an absent
\* ask, an ask of 0.0, an ask above 1.0, and totals of 0.990, 0.998, 0.999,
\* 1.000 and above around the profit threshold and the arbitrage tolerance.
YesAskA == {None, Some(0), Some(400), Some(650), Some(1200)}
NoAskA  == {None, Some(0), Some(590), Some(598), Some(599), Some(600)}
YesAskB == {None, Some(400), Some(650)}
NoAskB  == {None, Some(300), Some(600), Some(610)}

\* Last-traded prices.
LastOpts == {None, Some(500)}

\* min_profit_threshold values: negative, zero, the tolerance, 0.002 just
\* above it, the default.
ThresholdOpts == {0 - 50, 0, ArbTolerance, 2, DefaultMinProfit}

CalcPair == MatchedPair(1, "kalshi", "event-a", "polymarket", "event-b", 950)

IdleDetector ==
    /\ markets_dict = << >>
    /\ min_similarity = 0
    /\ min_profit_threshold = 0
    /\ session_rows = << >>
    /\ last_call = [op |-> "idle"]
    /\ result = << >>
    /\ registered = << >>
    /\ overwrote = FALSE

IdleCalc ==
    /\ calc_in = [op |-> "idle"]
    /\ calc_out = [done |-> FALSE]

IdleStore ==
    /\ store_rows = << >>
    /\ store_clock = 0
    /\ store_call = [op |-> "idle"]

IdleMatch ==
    /\ match_in = [op |-> "idle"]
    /\ match_out = [done |-> FALSE]

IdlePair ==
    /\ matcher_args = [op |-> "idle"]
    /\ matcher = [status |-> "idle"]
    /\ pair_in = [op |-> "idle"]
    /\ pair_out = [done |-> FALSE]

IdleClf ==
    /\ clf_in = [op |-> "idle"]
    /\ clf = << >>
    /\ clf_file = None
    /\ clf_call = [op |-> "idle"]
    /\ clf_saved = None
    /\ clf_ok = << >>

IdleScore ==
    /\ score_in = [op |-> "idle"]
    /\ score_out = [op |-> "idle"]

IdleCore ==
    /\ IdleDetector
    /\ IdleCalc
    /\ IdleStore
    /\ IdleMatch
    /\ IdlePair
    /\ IdleClf

IdleAnalyze ==
    /\ analyze_in = [op |-> "idle"]
    /\ analyze_out = [done |-> FALSE]

IdleShare ==
    /\ share_heap = << >>
    /\ share_det = << >>
    /\ share_call = [op |-> "idle"]

IdleMkt ==
    /\ mkt_rows = << >>
    /\ mkt_latest = << >>
    /\ mkt_call = [op |-> "idle"]

IdleThr ==
    /\ thr_vectorizer = << >>
    /\ thr_call = << >>
    /\ thr_pc = << >>
    /\ thr_out = << >>

IdleRest ==
    /\ IdleScore
    /\ IdleAnalyze
    /\ IdleShare
    /\ IdleMkt
    /\ IdleThr

InitCalc ==
    /\ IdleDetector
    /\ IdleStore
    /\ IdleMatch
    /\ IdlePair
    /\ IdleClf
    /\ IdleRest
    /\ \E ya \in YesAskA, na \in NoAskA, yb \in YesAskB, nb \in NoAskB,
          lya \in LastOpts, lna \in LastOpts, lyb \in LastOpts, lnb \in LastOpts,
          th \in ThresholdOpts :
          calc_in = [pair |-> CalcPair,
                     yes_a |-> UnifiedContract("yes", "YES", "binary", ya, lya),
                     no_a  |-> UnifiedContract("no", "NO", "binary", na, lna),
                     yes_b |-> UnifiedContract("yes", "YES", "binary", yb, lyb),
                     no_b  |-> UnifiedContract("no", "NO", "binary", nb, lnb),
                     threshold |-> th]
    /\ calc_out = [done |-> FALSE]

\* The call: the four effective prices it computes first (its locals
\* yes_a_price .. no_b_price) and the value it returns.
Calculate ==
    /\ ~calc_out.done
    /\ calc_out' = [done |-> TRUE,
                    prices |-> <<EffectivePrice(calc_in.yes_a),
                                 EffectivePrice(calc_in.no_a),
                                 EffectivePrice(calc_in.yes_b),
                                 EffectivePrice(calc_in.no_b)>>,
                    opp |-> calculate_both_sides_opportunity(
                                calc_in.pair, calc_in.yes_a, calc_in.no_a,
                                calc_in.yes_b, calc_in.no_b, calc_in.threshold)]
    /\ UNCHANGED <<calc_in, detector_vars, store_vars, match_vars, pair_vars, clf_vars, rest_vars>>

NextCalc == Calculate

SpecCalc == InitCalc /\ [][NextCalc]_vars

----------------------------------------------------------------------------
(* ArbitrageDetector: registry and batch detection                          *)

\* Insert opportunity o into s, which is in descending min_profit order,
\* behind every element whose min_profit is >= o's: list.sort is stable, also
\* with reverse=True.
RECURSIVE InsertDesc(_, _)
InsertDesc(s, o) ==
    IF s = << >> THEN <<o>>
    ELSE IF Head(s).min_profit >= o.min_profit
         THEN <<Head(s)>> \o InsertDesc(Tail(s), o)
         ELSE <<o>> \o s

\* opportunities.sort(key=lambda x: x.min_profit, reverse=True)
RECURSIVE SortDesc(_, _)
SortDesc(sorted, rest) ==
    IF rest = << >> THEN sorted
    ELSE SortDesc(InsertDesc(sorted, Head(rest)), Tail(rest))

\* (mutant) the list is returned in the order the pairs were analysed
SortByMinProfit_Unsorted(opps) == opps

SortByMinProfit(opps) == SortDesc(<< >>, opps)

\* (mutant) the loop ends at the first pair that yields no opportunity
RECURSIVE AnalyzeAll_StopAtSkip(_, _, _)
AnalyzeAll_StopAtSkip(dict, pairs, threshold) ==
    IF pairs = << >> THEN << >>
    ELSE IF analyze_pair(dict, Head(pairs), threshold) = << >> THEN << >>
    ELSE analyze_pair(dict, Head(pairs), threshold)
         \o AnalyzeAll_StopAtSkip(dict, Tail(pairs), threshold)

\* for pair in matched_pairs: opportunities.extend(self._analyze_pair(pair))
RECURSIVE AnalyzeAll(_, _, _)
AnalyzeAll(dict, pairs, threshold) ==
    IF pairs = << >> THEN << >>
    ELSE analyze_pair(dict, Head(pairs), threshold)
         \o AnalyzeAll(dict, Tail(pairs), threshold)

\* (mutant) the query does not filter
QueryBySimilarity_Unfiltered(rows, min_sim) == rows

\* session.query(MatchedMarketPairORM).filter(similarity >= min_sim).all()
QueryBySimilarity(rows, min_sim) ==
    SelectSeq(rows, LAMBDA r : r.similarity >= min_sim)

\* min_sim = min_similarity if min_similarity is not None else self.min_similarity
EffectiveMinSim(self_min_sim, min_similarity_arg) ==
    IF min_similarity_arg # None THEN min_similarity_arg[1] ELSE self_min_sim

\* The pairs detect_opportunities analyses: the ones passed in, or, when
\* matched_pairs is None, the rows of the session at or above min_sim.
PairsToAnalyze(rows, self_min_sim, matched_pairs, min_similarity_arg) ==
    IF matched_pairs = None
    THEN QueryBySimilarity(rows, EffectiveMinSim(self_min_sim, min_similarity_arg))
    ELSE matched_pairs[1]

detect_opportunities(dict, threshold, self_min_sim, rows, matched_pairs, min_similarity_arg) ==
    SortByMinProfit(
        AnalyzeAll(dict,
                   PairsToAnalyze(rows, self_min_sim, matched_pairs,
                                  min_similarity_arg),
                   threshold))

\* find_best_opportunity: detect_opportunities(session)[:limit]
find_best_opportunity(dict, threshold, self_min_sim, rows, limit) ==
    PySliceTo(detect_opportunities(dict, threshold, self_min_sim, rows,
                                   None, None),
              limit)

\* (mutant) an entry already held under the key is kept
DictSet_KeepFirst(dict, key, value) ==
    [k \in (DOMAIN dict) \cup {key} |->
        IF k \in DOMAIN dict THEN dict[k] ELSE value]

\* self.markets_dict[key] = market
DictSet(dict, key, value) ==
    [k \in (DOMAIN dict) \cup {key} |-> IF k = key THEN value ELSE dict[k]]

\* register_markets: the loop over the list, in order.
RECURSIVE register_markets(_, _)
register_markets(dict, markets) ==
    IF markets = << >> THEN dict
    ELSE register_markets(
             DictSet(dict, KeyOf(Head(markets).source, Head(markets).market_id),
                     Head(markets)),
             Tail(markets))

\* __init__: self.markets_dict = markets_dict or {}
EmptyDict == [k \in {} |-> None]
InitMarketsDict(markets_dict_arg) ==
    IF markets_dict_arg = None \/ DOMAIN markets_dict_arg[1] = {}
    THEN EmptyDict
    ELSE markets_dict_arg[1]

----------------------------------------------------------------------------
(* Spec: one ArbitrageDetector, the session it queries, and its callers     *)

\* Bounds of the model.
MaxBatch == 1       \* markets in one register_markets call, under Spec
MaxRegBatch == 2    \* markets in one register_markets call, under SpecRegistry
MaxRows == 2        \* rows in matched_market_pairs
MaxLimit == 2       \* largest limit given to find_best_opportunity

SeqsUpTo(S, n) == UNION {[1..k -> S] : k \in 0..n}

\* The lists that hold elements of S, each at most once.
Arrangements(S) ==
    {s \in SeqsUpTo(S, Cardinality(S)) :
        \A i, j \in 1..Len(s) : i # j => s[i] # s[j]}

Binary(yes_ask, no_ask) ==
    <<UnifiedContract("yes", "YES", "binary", yes_ask, None),
      UnifiedContract("no", "NO", "binary", no_ask, None)>>

\* The markets callers register.  Three keys; market A and market B are the
\* worked example of the tests (profit 0.30).
MarketA == UnifiedMarket("kalshi", "event-a", Binary(Some(400), Some(600)))
\* same key as MarketA, three "multi" contracts: fails the binary check
MarketA_Multi ==
    UnifiedMarket("kalshi", "event-a",
        <<UnifiedContract("a", "A", "multi", Some(330), None),
          UnifiedContract("b", "B", "multi", Some(330), None),
          UnifiedContract("c", "C", "multi", Some(340), None)>>)
MarketB == UnifiedMarket("polymarket", "event-b", Binary(Some(650), Some(300)))
\* with MarketA: investment 0.990, profit 0.010, the default threshold
MarketB_AtThreshold ==
    UnifiedMarket("polymarket", "event-b", Binary(Some(650), Some(590)))
\* with MarketA: investment 0.991, profit 0.009, under the default threshold;
\* with MarketB: investment 0.950, profit 0.050
MarketC == UnifiedMarket("polymarket", "event-c", Binary(Some(650), Some(591)))
\* the YES contract has neither an ask nor a last price
MarketC_NoPrice == UnifiedMarket("polymarket", "event-c", Binary(None, Some(300)))

Catalog == {MarketA, MarketA_Multi, MarketB, MarketB_AtThreshold,
            MarketC, MarketC_NoPrice}

Keys == {KeyOf(m.source, m.market_id) : m \in Catalog}

\* The matched pairs callers store: (source_a, market_id_a, source_b,
\* market_id_b, similarity).
PairKinds ==
    {<<"kalshi", "event-a", "polymarket", "event-b", 950>>,
     <<"kalshi", "event-a", "polymarket", "event-c", 650>>,
     <<"polymarket", "event-b", "polymarket", "event-c", 750>>}

\* (min_similarity, min_profit_threshold) given to __init__: the defaults,
\* and a stricter similarity with a zero profit threshold.
DetectorConfigs ==
    {[min_similarity |-> DefaultMinSimilarity,
      min_profit_threshold |-> DefaultMinProfit],
     [min_similarity |-> 900, min_profit_threshold |-> 0]}

\* markets_dict given to __init__: absent, empty, or holding MarketA.
CtorDicts ==
    {None, Some(EmptyDict),
     Some([k \in {KeyOf("kalshi", "event-a")} |-> MarketA])}

\* min_similarity given to detect_opportunities.
MinSimArgs == {None, Some(800)}

Call(op, matched_pairs, min_similarity_arg, limit) ==
    [op |-> op, matched_pairs |-> matched_pairs,
     min_similarity |-> min_similarity_arg, limit |-> limit]

\* History: the market last handed over under each key, by the constructor's
\* markets_dict first and by register_markets lists after it.
LastIndexOf(markets, key) ==
    LET hits == {i \in 1..Len(markets) :
                    KeyOf(markets[i].source, markets[i].market_id) = key}
    IN IF hits = {} THEN 0 ELSE CHOOSE i \in hits : \A j \in hits : j <= i

RegisteredAfter(reg, markets) ==
    [k \in Keys |->
        IF LastIndexOf(markets, k) = 0 THEN reg[k]
        ELSE Some(markets[LastIndexOf(markets, k)])]

Init ==
    /\ IdleCalc
    /\ IdleStore
    /\ IdleMatch
    /\ IdlePair
    /\ IdleClf
    /\ IdleRest
    /\ \E arg \in CtorDicts, cfg \in DetectorConfigs :
          /\ markets_dict = InitMarketsDict(arg)
          /\ min_similarity = cfg.min_similarity
          /\ min_profit_threshold = cfg.min_profit_threshold
          /\ registered = [k \in Keys |->
                              IF arg # None /\ k \in DOMAIN arg[1]
                              THEN Some(arg[1][k]) ELSE None]
    /\ overwrote = FALSE
    /\ session_rows = << >>
    /\ last_call = Call("init", None, None, 0)
    /\ result = << >>

\* History: some market of the list replaces a different market held under
\* its key, one registered before or one earlier in the list.
Overwrites(dict, markets) ==
    \E i \in 1..Len(markets) :
        LET before == register_markets(dict, SubSeq(markets, 1, i - 1))
            key == KeyOf(markets[i].source, markets[i].market_id)
        IN key \in DOMAIN before /\ before[key] # markets[i]

\* detector.register_markets(markets), for the lists of up to n markets;
\* track says whether the overwrote history is kept.
RegisterUpTo(n, track) ==
    \E markets \in SeqsUpTo(Catalog, n) :
        /\ markets_dict' = register_markets(markets_dict, markets)
        /\ registered' = RegisteredAfter(registered, markets)
        /\ overwrote' = (overwrote \/ (track /\ Overwrites(markets_dict, markets)))
        /\ last_call' = Call("register_markets", None, None, 0)
        /\ result' = << >>
        /\ UNCHANGED <<min_similarity, min_profit_threshold, session_rows,
                       calc_vars, store_vars, match_vars, pair_vars, clf_vars, rest_vars>>

\* session.add(MatchedMarketPairORM(...)); session.commit(): the row gets
\* the next id; uix_pair admits one row per (source_a, market_id_a,
\* source_b, market_id_b).
SessionAdd ==
    \E k \in PairKinds :
        /\ Len(session_rows) < MaxRows
        /\ \A i \in 1..Len(session_rows) :
              <<session_rows[i].source_a, session_rows[i].market_id_a,
                session_rows[i].source_b, session_rows[i].market_id_b>>
                  # <<k[1], k[2], k[3], k[4]>>
        /\ session_rows' =
              Append(session_rows,
                     MatchedPair(Len(session_rows) + 1, k[1], k[2], k[3], k[4], k[5]))
        /\ last_call' = Call("session.add", None, None, 0)
        /\ result' = << >>
        /\ UNCHANGED <<markets_dict, min_similarity, min_profit_threshold,
                       registered, overwrote, calc_vars,
                       store_vars, match_vars, pair_vars, clf_vars, rest_vars>>

\* The matched_pairs arguments: None, or a list that holds rows of the
\* session, any of them in any order.
MatchedPairsArgs ==
    {None} \cup {Some(s) : s \in Arrangements(
                    {session_rows[i] : i \in 1..Len(session_rows)})}

\* detector.detect_opportunities(session, matched_pairs, min_similarity)
DetectWith(mps) ==
    \E mp \in mps, ms \in MinSimArgs :
        /\ last_call' = Call("detect_opportunities", mp, ms, 0)
        /\ result' = detect_opportunities(markets_dict, min_profit_threshold,
                                          min_similarity, session_rows, mp, ms)
        /\ UNCHANGED <<markets_dict, min_similarity, min_profit_threshold,
                       session_rows, registered, overwrote, calc_vars,
                       store_vars, match_vars, pair_vars, clf_vars, rest_vars>>

\* detector.find_best_opportunity(session, limit)
FindBest ==
    \E limit \in 0..MaxLimit :
        /\ last_call' = Call("find_best_opportunity", None, None, limit)
        /\ result' = find_best_opportunity(markets_dict, min_profit_threshold,
                                           min_similarity, session_rows, limit)
        /\ UNCHANGED <<markets_dict, min_similarity, min_profit_threshold,
                       session_rows, registered, overwrote, calc_vars,
                       store_vars, match_vars, pair_vars, clf_vars, rest_vars>>

Register == RegisterUpTo(MaxBatch, FALSE)

Detect == DetectWith(MatchedPairsArgs)

Next == Register \/ SessionAdd \/ Detect \/ FindBest

Spec == Init /\ [][Next]_vars

----------------------------------------------------------------------------
(* SpecRegistry: the registry under register_markets lists of up to         *)
(* MaxRegBatch markets; the session holds two rows from the start and       *)
(* detection fetches its pairs from it.                                     *)

InitRegistry ==
    /\ IdleCalc
    /\ IdleStore
    /\ IdleMatch
    /\ IdlePair
    /\ IdleClf
    /\ IdleRest
    /\ \E arg \in CtorDicts, cfg \in DetectorConfigs :
          /\ markets_dict = InitMarketsDict(arg)
          /\ min_similarity = cfg.min_similarity
          /\ min_profit_threshold = cfg.min_profit_threshold
          /\ registered = [k \in Keys |->
                              IF arg # None /\ k \in DOMAIN arg[1]
                              THEN Some(arg[1][k]) ELSE None]
    /\ overwrote = FALSE
    /\ session_rows =
          <<MatchedPair(1, "kalshi", "event-a", "polymarket", "event-b", 950),
            MatchedPair(2, "polymarket", "event-b", "polymarket", "event-c", 750)>>
    /\ last_call = Call("init", None, None, 0)
    /\ result = << >>

RegisterBatch == RegisterUpTo(MaxRegBatch, TRUE)

DetectFetched == DetectWith({None})

NextRegistry == RegisterBatch \/ DetectFetched \/ FindBest

SpecRegistry == InitRegistry /\ [][NextRegistry]_vars

----------------------------------------------------------------------------
(* sql_storage.py: the matched_market_pairs table                           *)

\* Every string the storage model draws, in Python's str order (by code
\* point); a < b on str is the order of the positions in this list.
StrOrder == <<"kalshi", "m1", "m2", "polymarket">>

StrIndex(x) == CHOOSE i \in 1..Len(StrOrder) : StrOrder[i] = x

StrLess(a, b) == StrIndex(a) < StrIndex(b)

\* (mutant) the two keys are never swapped
TupleLess_Never(x, y) == FALSE

\* x < y on 2-tuples of str: the first components decide unless equal.
TupleLess(x, y) ==
    \/ StrLess(x[1], y[1])
    \/ (x[1] = y[1] /\ StrLess(x[2], y[2]))

\* pair_a, pair_b after `if pair_b < pair_a: pair_a, pair_b = pair_b, pair_a`
CanonicalPair(pair_a, pair_b) ==
    IF TupleLess(pair_b, pair_a) THEN <<pair_b, pair_a>> ELSE <<pair_a, pair_b>>

\* session.query(MatchedMarketPairORM).filter_by(source_a=.., market_id_a=..,
\* source_b=.., market_id_b=..): the indexes of the rows that match.
FilterByPair(rows, pair_a, pair_b) ==
    {i \in 1..Len(rows) :
        /\ rows[i].source_a = pair_a[1] /\ rows[i].market_id_a = pair_a[2]
        /\ rows[i].source_b = pair_b[1] /\ rows[i].market_id_b = pair_b[2]}

\* MatchedMarketPairORM(source_a=.., market_id_a=.., source_b=..,
\* market_id_b=..) as the INSERT leaves it: the next id, the column defaults.
NewPairRow(id, pair_a, pair_b, now) ==
    [id |-> id,
     source_a |-> pair_a[1], market_id_a |-> pair_a[2],
     source_b |-> pair_b[1], market_id_b |-> pair_b[2],
     similarity |-> None, classifier_probability |-> None,
     name_similarity |-> None, category_similarity |-> None,
     temporal_proximity |-> None, notes |-> None,
     is_manual_confirmed |-> FALSE,
     created_at |-> now, updated_at |-> now]

\* The "Update fields" block of save_matched_pair.
UpdateFields(row, a, now) ==
    [row EXCEPT !.similarity = Some(a.similarity),
                !.classifier_probability = a.classifier_probability,
                !.name_similarity = a.name_similarity,
                !.category_similarity = a.category_similarity,
                !.temporal_proximity = a.temporal_proximity,
                !.notes = a.notes,
                !.updated_at = now]

\* save_matched_pair(session, **a) at time now: the table after the commit
\* and the index of the row returned.  one_or_none() raises when more than
\* one row matches.
save_matched_pair(rows, a, now) ==
    LET canon == CanonicalPair(<<a.source_a, a.market_id_a>>,
                               <<a.source_b, a.market_id_b>>)
        found == FilterByPair(rows, canon[1], canon[2])
    IN
    IF Cardinality(found) > 1
    THEN [raised |-> TRUE, rows |-> rows, index |-> 0]
    ELSE IF found = {}
    THEN [raised |-> FALSE,
          rows |-> Append(rows,
                      UpdateFields(NewPairRow(Len(rows) + 1, canon[1], canon[2], now),
                                   a, now)),
          index |-> Len(rows) + 1]
    ELSE LET i == CHOOSE k \in found : TRUE
         IN [raised |-> FALSE,
             rows |-> [rows EXCEPT ![i] = UpdateFields(rows[i], a, now)],
             index |-> i]

----------------------------------------------------------------------------
(* SpecStore: save_matched_pair calls on a table that starts empty          *)

\* Bound of the model: the largest datetime.utcnow() reading.
MaxClock == 1

\* The (source, market_id) keys callers pair: two of one source, one of
\* another, so that both the source and the market id decide an order.
StoreKeys == {<<"kalshi", "m1">>, <<"kalshi", "m2">>, <<"polymarket", "m1">>}

\* The score arguments of a call: similarity alone, or every score given.
ScoreArgs ==
    {[similarity |-> 600, classifier_probability |-> None,
      name_similarity |-> None, category_similarity |-> None,
      temporal_proximity |-> None, notes |-> None],
     [similarity |-> 900, classifier_probability |-> Some(850),
      name_similarity |-> Some(800), category_similarity |-> Some(1000),
      temporal_proximity |-> Some(500), notes |-> Some("checked")]}

SaveArgs(ka, kb, sc) ==
    [source_a |-> ka[1], market_id_a |-> ka[2],
     source_b |-> kb[1], market_id_b |-> kb[2],
     similarity |-> sc.similarity,
     classifier_probability |-> sc.classifier_probability,
     name_similarity |-> sc.name_similarity,
     category_similarity |-> sc.category_similarity,
     temporal_proximity |-> sc.temporal_proximity,
     notes |-> sc.notes]

InitStore ==
    /\ IdleDetector
    /\ IdleCalc
    /\ IdleMatch
    /\ IdlePair
    /\ IdleClf
    /\ IdleRest
    /\ store_rows = << >>
    /\ store_clock = 0
    /\ store_call = [op |-> "init"]

\* save_matched_pair(session, ka, kb, scores...); datetime.utcnow() reads
\* the time of the latest reading or a later one.
SaveMatchedPair ==
    \E ka \in StoreKeys, kb \in StoreKeys, sc \in ScoreArgs,
       now \in store_clock..Min2(store_clock + 1, MaxClock) :
        /\ ka # kb
        /\ LET out == save_matched_pair(store_rows, SaveArgs(ka, kb, sc), now)
           IN /\ store_rows' = out.rows
              /\ store_clock' = now
              /\ store_call' = [op |-> "save_matched_pair",
                                args |-> SaveArgs(ka, kb, sc),
                                raised |-> out.raised, index |-> out.index]
              /\ UNCHANGED <<detector_vars, calc_vars, match_vars, pair_vars, clf_vars, rest_vars>>

NextStore == SaveMatchedPair

SpecStore == InitStore /\ [][NextStore]_vars

----------------------------------------------------------------------------
(* sql_storage.py: get_matched_pairs, and SpecQuery: save_matched_pair and  *)
(* get_matched_pairs calls on a table that starts empty                     *)

\* (mutant) the rows come back in table order
SortedBySimilarity_Any(listing) == TRUE

\* order_by(MatchedMarketPairORM.similarity.desc())
SortedBySimilarity(listing) ==
    \A i, j \in 1..Len(listing) :
        i < j => listing[i].similarity[1] >= listing[j].similarity[1]

\* The indexes of the rows the filters of get_matched_pairs keep; a filter
\* is applied when its argument is truthy.
FilterRows(rows, a) ==
    {i \in 1..Len(rows) :
        /\ (a.source_a # None => rows[i].source_a = a.source_a[1])
        /\ (a.source_b # None => rows[i].source_b = a.source_b[1])
        /\ (a.min_similarity > 0 =>
               rows[i].similarity[1] >= a.min_similarity)
        /\ (a.confirmed_only => rows[i].is_manual_confirmed)}

\* get_matched_pairs(session, **a): the lists the query may return, the
\* rows kept in descending similarity; the order of rows of equal
\* similarity is the database's choice.
get_matched_pairs(rows, a) ==
    LET kept == FilterRows(rows, a)
    IN {listing \in [1..Cardinality(kept) -> {rows[i] : i \in kept}] :
           /\ {listing[k] : k \in 1..Cardinality(kept)} = {rows[i] : i \in kept}
           /\ SortedBySimilarity(listing)}

\* The arguments of the get_matched_pairs calls.
QueryArgs ==
    {[source_a |-> sa, source_b |-> sb, min_similarity |-> ms,
      confirmed_only |-> co] :
        sa \in {None, Some("kalshi"), Some("polymarket")},
        sb \in {None, Some("kalshi"), Some("polymarket")},
        ms \in {0, 700}, co \in BOOLEAN}

GetMatchedPairs ==
    /\ \E a \in QueryArgs : \E listing \in get_matched_pairs(store_rows, a) :
          store_call' = [op |-> "get_matched_pairs", args |-> a,
                         result |-> listing]
    /\ UNCHANGED <<store_rows, store_clock>>
    /\ UNCHANGED <<detector_vars, calc_vars, match_vars, pair_vars, clf_vars, rest_vars>>

NextQuery ==
    \/ SaveMatchedPair
    \/ GetMatchedPairs

SpecQuery == InitStore /\ [][NextQuery]_vars

----------------------------------------------------------------------------
(* matcher.py: MarketMatcher.find_matches                                   *)

\* Text.  A str is the sequence of its characters, each a one-character
\* string, so that cleaning and n-grams are computed and not looked up.
LowerChar(c) ==
    CASE c = "A" -> "a"
      [] c = "B" -> "b"
      [] c = "C" -> "c"
      [] c = "D" -> "d"
      [] c = "P" -> "p"
      [] c = "S" -> "s"
      [] OTHER   -> c

\* str.lower()
Lower(text) == [i \in 1..Len(text) |-> LowerChar(text[i])]

\* \w and \s of the regular expressions, on the characters the model draws
WordChars == {"a", "b", "c", "d", "p", "s", "A", "B", "C", "D", "P", "S", "_"}
SpaceChars == {" "}

\* re.sub(r"[^\w\s]", " ", text)
PunctToSpace(text) ==
    [i \in 1..Len(text) |->
        IF text[i] \in WordChars \cup SpaceChars THEN text[i] ELSE " "]

\* re.sub(r"\s+", " ", text)
RECURSIVE CollapseSpaces(_)
CollapseSpaces(text) ==
    IF Len(text) = 0 THEN << >>
    ELSE IF Head(text) \in SpaceChars
         THEN IF Len(text) >= 2 /\ text[2] \in SpaceChars
              THEN CollapseSpaces(Tail(text))
              ELSE <<" ">> \o CollapseSpaces(Tail(text))
         ELSE <<Head(text)>> \o CollapseSpaces(Tail(text))

\* str.strip()
RECURSIVE Strip(_)
Strip(text) ==
    IF Len(text) = 0 THEN << >>
    ELSE IF Head(text) \in SpaceChars THEN Strip(Tail(text))
    ELSE IF text[Len(text)] \in SpaceChars
         THEN Strip(SubSeq(text, 1, Len(text) - 1))
         ELSE text

\* _clean_text
clean_text(text) == Strip(CollapseSpaces(PunctToSpace(Lower(text))))

\* TfidfVectorizer(analyzer="char", ngram_range=(2, 3)): the character
\* 2-grams and 3-grams of a document, and how often each occurs in it.
Ngrams(doc) ==
    {SubSeq(doc, q[1], q[1] + q[2] - 1) :
        q \in {r \in (1..Len(doc)) \X (2..3) : r[1] + r[2] - 1 <= Len(doc)}}

NgramCount(doc, g) ==
    Cardinality({i \in 1..Len(doc) :
                    /\ i + Len(g) - 1 <= Len(doc)
                    /\ SubSeq(doc, i, i + Len(g) - 1) = g})

\* The tf-idf rows of two documents of one corpus point the same way: idf
\* scales each n-gram alike in both, so they do when the counts are
\* proportional.
SameDirection(doc_a, doc_b) ==
    /\ Ngrams(doc_a) = Ngrams(doc_b)
    /\ Ngrams(doc_a) # {}
    /\ \A g, h \in Ngrams(doc_a) :
          NgramCount(doc_a, g) * NgramCount(doc_b, h)
              = NgramCount(doc_a, h) * NgramCount(doc_b, g)

\* cosine_similarity of the tf-idf rows of two documents: 0.0 when they
\* share no n-gram (a row without n-grams is the zero vector), 1.0 when the
\* rows point the same way.  Between the two the value depends on the idf
\* weights of the whole corpus; the names the model draws never fall there.
CosineSimilarity(doc_a, doc_b) ==
    CASE Ngrams(doc_a) \cap Ngrams(doc_b) = {} -> 0
      [] SameDirection(doc_a, doc_b) -> One

\* api/models.py UnifiedMarket with the fields the matcher reads
NamedMarket(source, mid, name, category, event_time, contracts) ==
    [source |-> source, market_id |-> mid, name |-> name,
     category |-> category, event_time |-> event_time,
     contracts |-> contracts]

\* `x or ""` on an Optional[str]
StrOrEmpty(x) == IF x = None THEN << >> ELSE x[1]

\* a in b on str
IsSubstring(a, b) ==
    \E i \in 1..(Len(b) + 1) :
        i + Len(a) - 1 <= Len(b) /\ SubSeq(b, i, i + Len(a) - 1) = a

\* _compute_category_similarity
compute_category_similarity(market_a, market_b) ==
    LET cat_a == StrOrEmpty(market_a.category)
        cat_b == StrOrEmpty(market_b.category)
    IN IF cat_a = << >> \/ cat_b = << >> THEN 500
       ELSE IF Lower(cat_a) = Lower(cat_b) THEN One
       ELSE IF IsSubstring(Lower(cat_a), Lower(cat_b))
               \/ IsSubstring(Lower(cat_b), Lower(cat_a)) THEN 700
       ELSE 0

Max2(a, b) == IF a >= b THEN a ELSE b
Abs(x) == IF x >= 0 THEN x ELSE 0 - x

OutcomeTypes(market) ==
    {market.contracts[i].outcome_type : i \in 1..Len(market.contracts)}

\* _compute_contract_similarity: 0.6 * type_similarity + 0.4 *
\* count_similarity, in thousandths (the quotients of the contract counts
\* the model draws are exact in thousandths).
compute_contract_similarity(market_a, market_b) ==
    IF Len(market_a.contracts) = 0 \/ Len(market_b.contracts) = 0
    THEN 0
    ELSE
    LET common_types == OutcomeTypes(market_a) \cap OutcomeTypes(market_b)
        all_types == OutcomeTypes(market_a) \cup OutcomeTypes(market_b)
        type_similarity ==
            (One * Cardinality(common_types)) \div Cardinality(all_types)
        count_a == Len(market_a.contracts)
        count_b == Len(market_b.contracts)
        count_similarity ==
            Max2(0, One - (One * Abs(count_a - count_b))
                              \div Max2(count_a, count_b))
    IN (600 * type_similarity + 400 * count_similarity) \div One

\* _compute_temporal_similarity.  An event time is None or Some of a record
\* [parses, day, hour]: whether _parse_event_time yields a datetime, and
\* the datetime it yields.  days_apart is abs((time_a - time_b).days): the
\* days of a timedelta are rounded down (\div does the same), so a
\* negative difference of less than a day counts as one day.
compute_temporal_similarity(self, market_a, market_b) ==
    IF market_a.event_time = None \/ market_b.event_time = None
    THEN 500
    ELSE
    LET time_a == market_a.event_time[1]
        time_b == market_b.event_time[1]
    IN IF ~time_a.parses \/ ~time_b.parses
       THEN 500
       ELSE
       LET days_apart ==
               Abs(((time_a.day * 24 + time_a.hour)
                    - (time_b.day * 24 + time_b.hour)) \div 24)
       IN IF days_apart = 0 THEN One
          ELSE IF days_apart <= self.max_days_apart
               THEN One - (One * days_apart) \div self.max_days_apart
               ELSE 0

\* The defaults of MarketMatcher.__init__, weights and threshold in
\* thousandths.
DefaultNameWeight == 400
DefaultCategoryWeight == 200
DefaultContractWeight == 300
DefaultTemporalWeight == 100
DefaultMinScoreThreshold == 500
DefaultMaxDaysApart == 7

DefaultMatcher ==
    [name_weight |-> DefaultNameWeight,
     category_weight |-> DefaultCategoryWeight,
     contract_weight |-> DefaultContractWeight,
     temporal_weight |-> DefaultTemporalWeight,
     min_score_threshold |-> DefaultMinScoreThreshold,
     max_days_apart |-> DefaultMaxDaysApart]

\* overall_score, in millionths (a weight times a score).
OverallScore(self, name_sim, category_sim, contract_sim, temporal_sim) ==
    self.name_weight * name_sim
    + self.category_weight * category_sim
    + self.contract_weight * contract_sim
    + self.temporal_weight * temporal_sim

\* (mutant) markets of one source are compared as well
SkipSameSource_Never(cross_source_only, market_a, market_b) == FALSE

\* if cross_source_only and market_a.source == market_b.source: continue
SkipSameSource(cross_source_only, market_a, market_b) ==
    cross_source_only /\ market_a.source = market_b.source

\* difflib.SequenceMatcher(None, a, b), no junk (autojunk needs 200
\* characters).  The matching blocks (i, j, k), a[i..i+k-1] = b[j..j+k-1],
\* inside a[alo..ahi] and b[blo..bhi].
BlocksIn(a, b, alo, ahi, blo, bhi) ==
    {q \in (alo..ahi) \X (blo..bhi) \X (1..(ahi - alo + 1)) :
        /\ q[1] + q[3] - 1 <= ahi
        /\ q[2] + q[3] - 1 <= bhi
        /\ SubSeq(a, q[1], q[1] + q[3] - 1) = SubSeq(b, q[2], q[2] + q[3] - 1)}

\* find_longest_match: the longest block; of those the one that starts
\* earliest in a; of those the one that starts earliest in b.
LongestMatch(a, b, alo, ahi, blo, bhi) ==
    LET blocks == BlocksIn(a, b, alo, ahi, blo, bhi)
    IN CHOOSE q \in blocks :
          \A r \in blocks :
              \/ q[3] > r[3]
              \/ (q[3] = r[3] /\ q[1] < r[1])
              \/ (q[3] = r[3] /\ q[1] = r[1] /\ q[2] <= r[2])

\* get_matching_blocks: the characters matched, the longest block first and
\* then the pieces to its left and to its right.
RECURSIVE MatchedChars(_, _, _, _, _, _)
MatchedChars(a, b, alo, ahi, blo, bhi) ==
    IF BlocksIn(a, b, alo, ahi, blo, bhi) = {} THEN 0
    ELSE LET q == LongestMatch(a, b, alo, ahi, blo, bhi)
         IN q[3]
            + MatchedChars(a, b, alo, q[1] - 1, blo, q[2] - 1)
            + MatchedChars(a, b, q[1] + q[3], ahi, q[2] + q[3], bhi)

\* ratio(): 2.0 * matches / (len(a) + len(b)), 1.0 for two empty strings;
\* in thousandths, rounded down.
Ratio(a, b) ==
    IF Len(a) + Len(b) = 0 THEN One
    ELSE (2 * One * MatchedChars(a, b, 1, Len(a), 1, Len(b)))
             \div (Len(a) + Len(b))

\* _fuzzy_match
fuzzy_match(text_a, text_b) == Ratio(clean_text(text_a), clean_text(text_b))

\* (mutant) contracts are paired on their names alone
SameOutcomeType_Ignored(contract_a, contract_b) == TRUE

SameOutcomeType(contract_a, contract_b) ==
    contract_a.outcome_type = contract_b.outcome_type

\* The contracts of market_b, from the j-th on, that _match_contracts pairs
\* with contract_a: similarity > 0.6 and the same outcome type.
RECURSIVE MatchesOfContract(_, _, _)
MatchesOfContract(contract_a, contracts_b, j) ==
    IF j > Len(contracts_b) THEN << >>
    ELSE (IF fuzzy_match(contract_a.name, contracts_b[j].name) > 600
             /\ SameOutcomeType(contract_a, contracts_b[j])
          THEN <<(<<contract_a, contracts_b[j]>>)>>
          ELSE << >>)
         \o MatchesOfContract(contract_a, contracts_b, j + 1)

\* _match_contracts: the nested loops, contract_b running fastest.
RECURSIVE MatchContractsFrom(_, _, _)
MatchContractsFrom(contracts_a, contracts_b, i) ==
    IF i > Len(contracts_a) THEN << >>
    ELSE MatchesOfContract(contracts_a[i], contracts_b, 1)
         \o MatchContractsFrom(contracts_a, contracts_b, i + 1)

match_contracts(market_a, market_b) ==
    MatchContractsFrom(market_a.contracts, market_b.contracts, 1)

\* (mutant) a decent score alone never gives "medium"
compute_confidence_NoScoreOnly(overall_score, name_sim, matching_contract_count) ==
    IF overall_score > 800000 /\ name_sim > 700 /\ matching_contract_count > 0
    THEN "high"
    ELSE IF overall_score > 500000 /\ matching_contract_count > 0
    THEN "medium"
    ELSE "low"

\* _compute_confidence; overall_score in millionths, name_sim in
\* thousandths.  total_contracts is not read.
compute_confidence(overall_score, name_sim, matching_contract_count) ==
    IF overall_score > 800000 /\ name_sim > 700 /\ matching_contract_count > 0
    THEN "high"
    ELSE IF overall_score > 650000
            \/ (overall_score > 500000 /\ matching_contract_count > 0)
    THEN "medium"
    ELSE "low"

\* The body of the two loops for the index pair (i, j): the MatchResult
\* appended, as a list of none or one.  i and j are kept in the record to
\* tell which elements of the two lists it joins; notes keeps its default.
MatchOf(self, markets_a, markets_b, within_same_list, cross_source_only, i, j) ==
    LET market_a == markets_a[i]
        market_b == markets_b[j]
        name_sim == CosineSimilarity(clean_text(market_a.name),
                                     clean_text(market_b.name))
        category_sim == compute_category_similarity(market_a, market_b)
        contract_sim == compute_contract_similarity(market_a, market_b)
        temporal_sim == compute_temporal_similarity(self, market_a, market_b)
        overall_score == OverallScore(self, name_sim, category_sim,
                                      contract_sim, temporal_sim)
        matching_contracts == match_contracts(market_a, market_b)
    IN IF within_same_list /\ i >= j THEN << >>
       ELSE IF SkipSameSource(cross_source_only, market_a, market_b) THEN << >>
       ELSE IF overall_score < self.min_score_threshold * One THEN << >>
       ELSE <<[i |-> i, j |-> j,
               market_a |-> market_a, market_b |-> market_b,
               match_score |-> overall_score,
               name_similarity |-> name_sim,
               category_similarity |-> category_sim,
               contract_similarity |-> contract_sim,
               temporal_proximity |-> temporal_sim,
               matching_contracts |-> matching_contracts,
               confidence |-> compute_confidence(overall_score, name_sim,
                                                 Len(matching_contracts))]>>

\* The two loops from the index pair (i, j) on, j running fastest.
RECURSIVE MatchLoop(_, _, _, _, _, _, _)
MatchLoop(self, markets_a, markets_b, within_same_list, cross_source_only, i, j) ==
    IF i > Len(markets_a) THEN << >>
    ELSE IF j > Len(markets_b)
    THEN MatchLoop(self, markets_a, markets_b, within_same_list,
                   cross_source_only, i + 1, 1)
    ELSE MatchOf(self, markets_a, markets_b, within_same_list,
                 cross_source_only, i, j)
         \o MatchLoop(self, markets_a, markets_b, within_same_list,
                      cross_source_only, i, j + 1)

\* (mutant) the matches stay in the order the loops found them
SortByScore_Unsorted(sorted, rest) == rest

\* matches.sort(key=lambda m: m.match_score, reverse=True), a stable sort
RECURSIVE InsertByScore(_, _)
InsertByScore(s, m) ==
    IF s = << >> THEN <<m>>
    ELSE IF Head(s).match_score >= m.match_score
         THEN <<Head(s)>> \o InsertByScore(Tail(s), m)
         ELSE <<m>> \o s

RECURSIVE SortByScore(_, _)
SortByScore(sorted, rest) ==
    IF rest = << >> THEN sorted
    ELSE SortByScore(InsertByScore(sorted, Head(rest)), Tail(rest))

\* find_matches(markets_a, markets_b, cross_source_only); markets_b is None
\* or Some(list).  fit_transform raises ValueError when no name has an
\* n-gram (empty vocabulary), cosine_similarity when one of the two
\* matrices has no row.
find_matches(self, markets_a, markets_b_arg, cross_source_only) ==
    LET within_same_list == (markets_b_arg = None)
        markets_b == IF within_same_list THEN markets_a ELSE markets_b_arg[1]
        names_a == [i \in 1..Len(markets_a) |-> clean_text(markets_a[i].name)]
        names_b == [i \in 1..Len(markets_b) |-> clean_text(markets_b[i].name)]
        all_names == names_a \o (IF within_same_list THEN << >> ELSE names_b)
    IN
    IF all_names = << >>
    THEN [raised |-> None, matches |-> << >>]
    ELSE IF \A k \in 1..Len(all_names) : Ngrams(all_names[k]) = {}
    THEN [raised |-> Some("ValueError"), matches |-> << >>]
    ELSE IF Len(names_a) = 0 \/ Len(names_b) = 0
    THEN [raised |-> Some("ValueError"), matches |-> << >>]
    ELSE [raised |-> None,
          matches |-> SortByScore(<< >>,
                          MatchLoop(self, markets_a, markets_b,
                                    within_same_list, cross_source_only, 1, 1))]

----------------------------------------------------------------------------
(* SpecMatch: one find_matches call of a matcher built with the defaults    *)

\* Bound of the model: the longest list of markets given to find_matches.
MaxMarkets == 2

\* A contract as the matcher reads it: its name and its outcome type.
NamedContract(cid, name, side, otype) ==
    [contract_id |-> cid, name |-> name, side |-> side, outcome_type |-> otype]

TwoBinary ==
    <<NamedContract("yes", <<"Y", "e", "s">>, "YES", "binary"),
      NamedContract("no", <<"N", "o">>, "NO", "binary")>>

\* The markets given to the matcher.  "ab" and "AB?" clean to the same name,
\* " cd" and "cd" to another that shares no n-gram with it; "?" cleans to
\* the empty name.  Scores: k1-p1 0.95, p2-k3 0.90, p1-k3 0.50 (the default
\* threshold), k1-p2 0.45; with the earlier event time first k3-p2 scores
\* 0.8858 and k3-p1 0.4858.
MatchCatalog ==
    {NamedMarket("kalshi", "k1", <<"a", "b">>, Some(<<"P">>), None, TwoBinary),
     NamedMarket("polymarket", "p1", <<"A", "B", "?">>, Some(<<"p">>),
                 Some([parses |-> TRUE, day |-> 3, hour |-> 12]), TwoBinary),
     NamedMarket("polymarket", "p2", <<" ", "c", "d">>, None,
                 Some([parses |-> TRUE, day |-> 3, hour |-> 20]), TwoBinary),
     NamedMarket("kalshi", "k3", <<"c", "d">>, None,
                 Some([parses |-> TRUE, day |-> 3, hour |-> 1]), TwoBinary),
     NamedMarket("kalshi", "k2", <<"?">>, Some(<<"S">>),
                 Some([parses |-> FALSE, day |-> 0, hour |-> 0]), << >>)}

InitMatch ==
    /\ IdleDetector
    /\ IdleCalc
    /\ IdleStore
    /\ IdlePair
    /\ IdleClf
    /\ IdleRest
    /\ \E markets_a \in SeqsUpTo(MatchCatalog, MaxMarkets),
          markets_b \in {None} \cup
                        {Some(l) : l \in SeqsUpTo(MatchCatalog, MaxMarkets)},
          cross_source_only \in BOOLEAN :
          match_in = [markets_a |-> markets_a, markets_b |-> markets_b,
                      cross_source_only |-> cross_source_only]
    /\ match_out = [done |-> FALSE]

FindMatches ==
    /\ ~match_out.done
    /\ LET out == find_matches(DefaultMatcher, match_in.markets_a,
                               match_in.markets_b, match_in.cross_source_only)
       IN match_out' = [done |-> TRUE, raised |-> out.raised,
                        matches |-> out.matches]
    /\ UNCHANGED <<match_in, detector_vars, calc_vars, store_vars, pair_vars, clf_vars, rest_vars>>

NextMatch == FindMatches

SpecMatch == InitMatch /\ [][NextMatch]_vars

----------------------------------------------------------------------------
(* matcher.py: MarketMatcher.__init__, _fuzzy_match and match_single_pair   *)

\* The tolerance of the weight check, 0.01.
WeightTolerance == 10

\* (mutant) the sum has to be 1.0 exactly
WeightsRejected_Exact(total) == total # One

\* if abs(total - 1.0) > 0.01: raise ValueError
WeightsRejected(total) == Abs(total - One) > WeightTolerance

\* MarketMatcher.__init__(**a): the instance, or the error raised.
MarketMatcherInit(a) ==
    LET total == a.name_weight + a.category_weight
                 + a.contract_weight + a.temporal_weight
    IN IF WeightsRejected(total)
       THEN [status |-> "raised", error |-> "ValueError"]
       ELSE [status |-> "built",
             self |-> [name_weight |-> a.name_weight,
                       category_weight |-> a.category_weight,
                       contract_weight |-> a.contract_weight,
                       temporal_weight |-> a.temporal_weight,
                       min_score_threshold |-> a.min_score_threshold,
                       max_days_apart |-> a.max_days_apart]]

\* The MatchResult match_single_pair builds when find_matches returns
\* nothing.
NoMatchResult(market_a, market_b) ==
    [market_a |-> market_a, market_b |-> market_b,
     match_score |-> 0, name_similarity |-> 0, category_similarity |-> 0,
     contract_similarity |-> 0, temporal_proximity |-> 0,
     confidence |-> "low", notes |-> "No match found"]

\* match_single_pair: matches[0] of find_matches([market_a], [market_b],
\* cross_source_only=False), or the no-match result; an error of
\* find_matches is not caught.
match_single_pair(self, market_a, market_b) ==
    LET out == find_matches(self, <<market_a>>, Some(<<market_b>>), FALSE)
    IN IF out.raised # None
       THEN [raised |-> out.raised, result |-> None]
       ELSE IF out.matches # << >>
       THEN [raised |-> None, result |-> Some(out.matches[1])]
       ELSE [raised |-> None, result |-> Some(NoMatchResult(market_a, market_b))]

----------------------------------------------------------------------------
(* SpecPair: a MarketMatcher is constructed and, when the constructor       *)
(* accepts the weights, match_single_pair is called on it once.             *)

\* The weights given to the constructor: sums of 0.98, 0.995, 1.00, 1.005
\* and 1.02 around the defaults, and weights outside [0, 1] that sum to 1.0.
\* Sums of exactly 0.99 and 1.01 are not drawn: on which side of the
\* tolerance they fall is decided by the rounding of binary floats.
NameWeights == {380, 395, DefaultNameWeight, 405, 420, 1500}
CategoryWeights == {DefaultCategoryWeight, 0 - 500}
ContractWeights == {DefaultContractWeight, 0}
TemporalWeights == {DefaultTemporalWeight, 0}

\* The markets of the pair: the markets of MatchCatalog and "ba", which
\* shares both characters and no n-gram with "ab".
PairMarkets ==
    MatchCatalog \cup
    {NamedMarket("polymarket", "p3", <<"b", "a">>, Some(<<"p">>), None, TwoBinary)}

InitPair ==
    /\ IdleDetector
    /\ IdleCalc
    /\ IdleStore
    /\ IdleMatch
    /\ IdleClf
    /\ IdleRest
    /\ \E nw \in NameWeights, cw \in CategoryWeights,
          kw \in ContractWeights, tw \in TemporalWeights :
          matcher_args = [name_weight |-> nw, category_weight |-> cw,
                          contract_weight |-> kw, temporal_weight |-> tw,
                          min_score_threshold |-> DefaultMinScoreThreshold,
                          max_days_apart |-> DefaultMaxDaysApart]
    /\ matcher = [status |-> "new"]
    /\ \E market_a \in PairMarkets, market_b \in PairMarkets :
          pair_in = [market_a |-> market_a, market_b |-> market_b]
    /\ pair_out = [done |-> FALSE]

\* matcher = MarketMatcher(**matcher_args)
Construct ==
    /\ matcher.status = "new"
    /\ matcher' = MarketMatcherInit(matcher_args)
    /\ UNCHANGED <<matcher_args, pair_in, pair_out,
                   detector_vars, calc_vars, store_vars, match_vars, clf_vars, rest_vars>>

\* matcher.match_single_pair(market_a, market_b)
MatchSinglePair ==
    /\ matcher.status = "built"
    /\ ~pair_out.done
    /\ LET out == match_single_pair(matcher.self, pair_in.market_a,
                                    pair_in.market_b)
       IN pair_out' = [done |-> TRUE, raised |-> out.raised,
                       result |-> out.result]
    /\ UNCHANGED <<matcher_args, matcher, pair_in,
                   detector_vars, calc_vars, store_vars, match_vars, clf_vars, rest_vars>>

NextPair == Construct \/ MatchSinglePair

SpecPair == InitPair /\ [][NextPair]_vars

----------------------------------------------------------------------------
(* MatcherClassifier (matcher_classifier.py).  The three features are held  *)
(* each in its own unit: tfidf_sim and category_match in thousandths,       *)
(* time_diff in tenths of a day, which keeps the squares the scaler sums    *)
(* within TLC's integers.  Scaled features, coefficients, the intercept     *)
(* and probabilities are thousandths.                                       *)

Features == 1..3
FeatureNames == <<"tfidf_sim", "time_diff", "category_match">>

\* The penalty of _compute_time_diff for a missing or unparseable date:
\* 365 days.
MissingDatePenalty == 3650

\* _compute_time_diff: the dates only, abs((date_a - date_b).days).
compute_time_diff(market_a, market_b) ==
    IF market_a.event_time = None \/ market_b.event_time = None
    THEN MissingDatePenalty
    ELSE
    LET time_a == market_a.event_time[1]
        time_b == market_b.event_time[1]
    IN IF ~time_a.parses \/ ~time_b.parses
       THEN MissingDatePenalty
       ELSE 10 * Abs(time_a.day - time_b.day)

\* _compute_category_match
compute_category_match(market_a, market_b) ==
    LET cat_a == Lower(StrOrEmpty(market_a.category))
        cat_b == Lower(StrOrEmpty(market_b.category))
    IN IF cat_a = << >> \/ cat_b = << >>
       THEN 0
       ELSE IF cat_a = cat_b THEN One ELSE 0

\* extract_features: the row [tfidf_sim, time_diff, category_match]; the
\* first feature is _fuzzy_match of the two names.
extract_features(market_a, market_b) ==
    <<fuzzy_match(market_a.name, market_b.name),
      compute_time_diff(market_a, market_b),
      compute_category_match(market_a, market_b)>>

RECURSIVE SumSeq(_)
SumSeq(s) == IF s = << >> THEN 0 ELSE Head(s) + SumSeq(Tail(s))

\* The integer square root, by Newton's iteration from above.
RECURSIVE SqrtFrom(_, _)
SqrtFrom(v, r) ==
    LET next == (r + v \div r) \div 2
    IN IF next >= r THEN r ELSE SqrtFrom(v, next)

Sqrt(v) == IF v = 0 THEN 0 ELSE SqrtFrom(v, v)

\* StandardScaler.fit on the rows X: per column the mean and the standard
\* deviation (population variance); a column without variance gets scale 1.
Column(X, f) == [r \in 1..Len(X) |-> X[r][f]]

ColumnMean(X, f) == SumSeq(Column(X, f)) \div Len(X)

ColumnStd(X, f) ==
    LET mean == ColumnMean(X, f)
        squares == [r \in 1..Len(X) |-> (X[r][f] - mean) * (X[r][f] - mean)]
    IN Sqrt(SumSeq(squares) \div Len(X))

ScalerFit(X) ==
    [mean |-> [f \in Features |-> ColumnMean(X, f)],
     scale |-> [f \in Features |->
                   IF ColumnStd(X, f) = 0 THEN 1 ELSE ColumnStd(X, f)]]

\* StandardScaler.transform of one row
ScalerTransform(scaler, row) ==
    [f \in Features |-> ((row[f] - scaler.mean[f]) * One) \div scaler.scale[f]]

\* The logistic function, in thousandths: its values at 0, 1, ..., 7,
\* linear in between, 1.0 from 8 on, and 1 - Sigmoid(-z) below 0.
SigmoidTable == <<500, 731, 881, 953, 982, 993, 998, 999>>

SigmoidNonNeg(z) ==
    LET k == z \div One
        frac == z % One
    IN IF k >= Len(SigmoidTable) THEN One
       ELSE LET lo == SigmoidTable[k + 1]
                hi == IF k + 1 = Len(SigmoidTable) THEN One
                      ELSE SigmoidTable[k + 2]
            IN lo + ((hi - lo) * frac) \div One

Sigmoid(z) == IF z >= 0 THEN SigmoidNonNeg(z) ELSE One - SigmoidNonNeg(0 - z)

\* LogisticRegression.predict_proba(...)[0, 1] on one scaled row
PredictProba(model, scaled) ==
    LET terms == [f \in Features |-> (model.coef[f] * scaled[f]) \div One]
    IN Sigmoid(SumSeq(terms) + model.intercept)

\* MatcherClassifier.__init__: a model and a scaler not fitted yet.
MatcherClassifierInit == [model |-> None, scaler |-> None, is_fitted |-> FALSE]

\* np.vstack of the feature rows of the pairs; it raises on no rows.
FeatureRows(pairs) ==
    [r \in 1..Len(pairs) |-> extract_features(pairs[r][1], pairs[r][2])]

\* LogisticRegression.fit on the scaled rows.  The numbers lbfgs arrives at
\* are not computed here: fitted gives the coefficient it finds for a
\* feature that varies over the rows and the intercept.  A feature that is
\* the same in every row is scaled to 0.0 in every row, so the gradient of
\* its coefficient is 0.0 from the start at 0.0 and the coefficient stays
\* exactly 0.0.
ModelFit(X, fitted) ==
    [coef |-> [f \in Features |->
                  IF ColumnStd(X, f) = 0 THEN 0 ELSE fitted.coef[f]],
     intercept |-> fitted.intercept]

\* train: [raised, self]; the features of both lists are stacked before
\* the scaler and the model are touched.
train(self, positive_pairs, negative_pairs, fitted) ==
    IF positive_pairs = << >> \/ negative_pairs = << >>
    THEN [raised |-> Some("ValueError"), self |-> self]
    ELSE LET X == FeatureRows(positive_pairs) \o FeatureRows(negative_pairs)
         IN [raised |-> None,
             self |-> [model |-> Some(ModelFit(X, fitted)),
                       scaler |-> Some(ScalerFit(X)),
                       is_fitted |-> TRUE]]

\* predict once is_fitted has let it through: the features are scaled and
\* the model gives the probability of class 1; sklearn raises on a scaler
\* or a model that was never fitted.
predict_fitted(self, market_a, market_b) ==
    IF self.scaler = None \/ self.model = None
    THEN [raised |-> Some("NotFittedError"), value |-> None]
    ELSE [raised |-> None,
          value |-> Some(PredictProba(self.model[1],
                             ScalerTransform(self.scaler[1],
                                 extract_features(market_a, market_b))))]

predict_Unguarded(self, market_a, market_b) ==
    predict_fitted(self, market_a, market_b)

\* predict: [raised, value]
predict(self, market_a, market_b) ==
    IF ~self.is_fitted
    THEN [raised |-> Some("ValueError"), value |-> None]
    ELSE predict_fitted(self, market_a, market_b)

\* pickle.dump writes the dict as the sequence of its items, in the order
\* the dict was built; pickle.load rebuilds the dict from the items.
pickle_dump(data, keys) == [k \in 1..Len(keys) |-> <<keys[k], data[keys[k]]>>]

pickle_load(bytes) ==
    [key \in {bytes[k][1] : k \in 1..Len(bytes)} |->
        LET k == CHOOSE k \in 1..Len(bytes) : bytes[k][1] = key
        IN bytes[k][2]]

\* save: [raised, file]; file is the content of the file after the call.
save(self, file) ==
    IF ~self.is_fitted
    THEN [raised |-> Some("ValueError"), file |-> file]
    ELSE [raised |-> None,
          file |-> Some(pickle_dump(self, <<"model", "scaler", "is_fitted">>))]

load_KeepScaler(self, file) ==
    IF file = None
    THEN [raised |-> Some("FileNotFoundError"), self |-> self]
    ELSE LET data == pickle_load(file[1])
         IN [raised |-> None,
             self |-> [model |-> data["model"], scaler |-> self.scaler,
                       is_fitted |-> data["is_fitted"]]]

\* load: [raised, self]; open() raises when the file is not there.
load(self, file) ==
    IF file = None
    THEN [raised |-> Some("FileNotFoundError"), self |-> self]
    ELSE LET data == pickle_load(file[1])
         IN [raised |-> None,
             self |-> [model |-> data["model"], scaler |-> data["scaler"],
                       is_fitted |-> data["is_fitted"]]]

\* A float that a division yields: a number, or nan for 0.0 / 0.0 (numpy
\* warns and does not raise).
Float(v) == [nan |-> FALSE, v |-> v]
NaN == [nan |-> TRUE, v |-> 0]
Divide(a, b) == IF b = 0 THEN NaN ELSE Float((a * One) \div b)

\* get_feature_importance: [raised, value]; value maps the feature names
\* to coefs[i] / total.
get_feature_importance(self) ==
    IF ~self.is_fitted
    THEN [raised |-> Some("ValueError"), value |-> None]
    ELSE LET coefs == [f \in Features |-> Abs(self.model[1].coef[f])]
             total == SumSeq(coefs)
         IN [raised |-> None,
             value |-> Some([name \in {FeatureNames[f] : f \in Features} |->
                               LET f == CHOOSE f \in Features :
                                            FeatureNames[f] = name
                               IN Divide(coefs[f], total)])]

----------------------------------------------------------------------------
(* SpecClassifier: two MatcherClassifier instances and one file.  Each      *)
(* instance is trained, asked to predict, saved, loaded and asked for its   *)
(* feature importance in any order.                                         *)

MaxPairs == 1

Instances == {1, 2}

MarketById(mid) == CHOOSE m \in PairMarkets : m.market_id = mid

\* Labelled pairs with the features (1.0, 365, 1.0), (1.0, 0, 0.0) and
\* (0.0, 365, 0.0), and for predict also (0.5, 365, 1.0).
TrainPairs ==
    {<<MarketById("k1"), MarketById("p1")>>,
     <<MarketById("k3"), MarketById("p2")>>,
     <<MarketById("k1"), MarketById("p2")>>}

PredictPairs == TrainPairs \cup {<<MarketById("p3"), MarketById("k1")>>}

\* What lbfgs may find: the coefficients of the features that vary, and
\* the intercept.
FittedCoefs == {<<2000, 0 - 1500, 1000>>, <<0 - 500, 250, 0 - 3000>>}
InterceptValues == {250}

InitClassifier ==
    /\ IdleDetector
    /\ IdleCalc
    /\ IdleStore
    /\ IdleMatch
    /\ IdlePair
    /\ IdleRest
    /\ \E positive_pairs \in SeqsUpTo(TrainPairs, MaxPairs),
          negative_pairs \in SeqsUpTo(TrainPairs, MaxPairs),
          coef \in FittedCoefs,
          intercept \in InterceptValues :
          clf_in = [positive_pairs |-> positive_pairs,
                    negative_pairs |-> negative_pairs,
                    fitted |-> [coef |-> coef, intercept |-> intercept]]
    /\ clf = [i \in Instances |-> MatcherClassifierInit]
    /\ clf_file = None
    /\ clf_call = [op |-> "init"]
    /\ clf_saved = None
    /\ clf_ok = [i \in Instances |-> FALSE]

\* classifier.train(positive_pairs, negative_pairs)
Train(i) ==
    /\ LET out == train(clf[i], clf_in.positive_pairs, clf_in.negative_pairs,
                        clf_in.fitted)
       IN /\ clf' = [clf EXCEPT ![i] = out.self]
          /\ clf_call' = [op |-> "train", inst |-> i, raised |-> out.raised]
          /\ clf_ok' = [clf_ok EXCEPT ![i] = @ \/ out.raised = None]
    /\ UNCHANGED <<clf_in, clf_file, clf_saved>>

\* classifier.predict(market_a, market_b)
Predict(i) ==
    /\ \E pair \in PredictPairs :
          LET out == predict(clf[i], pair[1], pair[2])
          IN clf_call' = [op |-> "predict", inst |-> i,
                          market_a |-> pair[1], market_b |-> pair[2],
                          raised |-> out.raised, value |-> out.value]
    /\ UNCHANGED <<clf_in, clf, clf_file, clf_saved, clf_ok>>

\* classifier.save(filepath)
Save(i) ==
    /\ LET out == save(clf[i], clf_file)
       IN /\ clf_file' = out.file
          /\ clf_call' = [op |-> "save", inst |-> i, raised |-> out.raised]
          /\ clf_saved' = IF out.raised = None
                          THEN Some([by |-> i, self |-> clf[i]])
                          ELSE clf_saved
    /\ UNCHANGED <<clf_in, clf, clf_ok>>

\* classifier.load(filepath)
Load(i) ==
    /\ LET out == load(clf[i], clf_file)
       IN /\ clf' = [clf EXCEPT ![i] = out.self]
          /\ clf_call' = [op |-> "load", inst |-> i, raised |-> out.raised]
          /\ clf_ok' = [clf_ok EXCEPT ![i] = @ \/ out.raised = None]
    /\ UNCHANGED <<clf_in, clf_file, clf_saved>>

\* classifier.get_feature_importance()
GetFeatureImportance(i) ==
    /\ LET out == get_feature_importance(clf[i])
       IN clf_call' = [op |-> "get_feature_importance", inst |-> i,
                       raised |-> out.raised, value |-> out.value]
    /\ UNCHANGED <<clf_in, clf, clf_file, clf_saved, clf_ok>>

ClassifierCall(i) ==
    \/ Train(i)
    \/ Predict(i)
    \/ Save(i)
    \/ Load(i)
    \/ GetFeatureImportance(i)

NextClassifier ==
    /\ \E i \in Instances : ClassifierCall(i)
    /\ UNCHANGED <<detector_vars, calc_vars, store_vars, match_vars, pair_vars,
                   rest_vars>>

SpecClassifier == InitClassifier /\ [][NextClassifier]_vars

----------------------------------------------------------------------------
(* SpecScore: one pair of markets, on which the matcher built with the      *)
(* defaults computes its similarities, pairs the contracts and runs         *)
(* find_matches([market_a], [market_b], cross_source_only=False).           *)

EventTime(day, hour) == Some([parses |-> TRUE, day |-> day, hour |-> hour])

\* Event times: two on day 3, midnight of day 4, day 10 (a week after the
\* later time of day 3), day 12, one that does not parse and none.
ScoreTimes ==
    {EventTime(3, 1), EventTime(3, 20), EventTime(4, 0), EventTime(10, 20),
     EventTime(12, 0), Some([parses |-> FALSE, day |-> 0, hour |-> 0]), None}

\* Contract lists: Yes/No; "yes" as a binary and "Yes?" as a scalar
\* contract; Up/Down; "yes" twice as a binary contract; no contracts.
YesScalar ==
    <<NamedContract("y1", <<"y", "e", "s">>, "YES", "binary"),
      NamedContract("y2", <<"Y", "e", "s", "?">>, "YES", "scalar")>>

UpDown ==
    <<NamedContract("up", <<"U", "p">>, "YES", "binary"),
      NamedContract("down", <<"D", "o", "w", "n">>, "NO", "binary")>>

YesTwice ==
    <<NamedContract("t1", <<"y", "e", "s">>, "YES", "binary"),
      NamedContract("t2", <<"y", "e", "s", " ">>, "YES", "binary")>>

ScoreContracts == {TwoBinary, YesScalar, UpDown, YesTwice, << >>}

ScoreNames == {<<"a", "b">>, <<"c", "d">>}

\* The markets of the pair: every event time with the Yes/No contracts, and
\* every contract list with the later time of day 3.
ScoreMarkets ==
    {NamedMarket("kalshi", "m", name, Some(<<"P">>), time, TwoBinary) :
         name \in ScoreNames, time \in ScoreTimes}
    \cup {NamedMarket("kalshi", "m", name, category, EventTime(3, 20), contracts) :
              name \in ScoreNames, category \in {Some(<<"P">>), None},
              contracts \in ScoreContracts}

InitScore ==
    /\ IdleCore
    /\ IdleAnalyze
    /\ IdleShare
    /\ IdleMkt
    /\ IdleThr
    /\ \E market_a \in ScoreMarkets, market_b \in ScoreMarkets :
          score_in = [market_a |-> market_a, market_b |-> market_b]
    /\ score_out = [op |-> "init"]

\* category_sim, contract_sim and temporal_sim of the pair
Similarities ==
    /\ score_out' =
           [op |-> "similarities",
            category |-> compute_category_similarity(score_in.market_a,
                                                     score_in.market_b),
            contract |-> compute_contract_similarity(score_in.market_a,
                                                     score_in.market_b),
            temporal |-> compute_temporal_similarity(DefaultMatcher,
                             score_in.market_a, score_in.market_b)]
    /\ UNCHANGED <<score_in, core_vars, analyze_vars, share_vars, mkt_vars, thr_vars>>

\* self._match_contracts(market_a, market_b)
MatchContracts ==
    /\ score_out' = [op |-> "match_contracts",
                     pairs |-> match_contracts(score_in.market_a,
                                               score_in.market_b)]
    /\ UNCHANGED <<score_in, core_vars, analyze_vars, share_vars, mkt_vars, thr_vars>>

\* self.find_matches([market_a], [market_b], cross_source_only=False)
FindMatchesOfPair ==
    /\ LET out == find_matches(DefaultMatcher, <<score_in.market_a>>,
                               Some(<<score_in.market_b>>), FALSE)
       IN score_out' = [op |-> "find_matches", raised |-> out.raised,
                        matches |-> out.matches]
    /\ UNCHANGED <<score_in, core_vars, analyze_vars, share_vars, mkt_vars, thr_vars>>

NextScore == Similarities \/ MatchContracts \/ FindMatchesOfPair

SpecScore == InitScore /\ [][NextScore]_vars

----------------------------------------------------------------------------
(* SpecAnalyze: _analyze_pair on two registered markets whose contract      *)
(* lists mix binary YES/NO contracts with other contracts.                  *)

Contract(cid, side, otype, ask) == UnifiedContract(cid, side, otype, ask, None)

\* Contract lists of a market, NO asked at 0.30: YES and NO alone; followed
\* by a "multi" contract of side "YES"; followed by a binary contract of
\* side "yes"; preceded by a "multi" contract of another side; two binary
\* YES contracts and no NO; "multi" contracts only.
ContractLists(yes_ask) ==
    {Binary(yes_ask, Some(300)),
     Binary(yes_ask, Some(300)) \o <<Contract("x", "YES", "multi", Some(200))>>,
     Binary(yes_ask, Some(300)) \o <<Contract("y", "yes", "binary", Some(200))>>,
     <<Contract("a", "A", "multi", Some(200))>> \o Binary(yes_ask, Some(300)),
     <<Contract("yes", "YES", "binary", yes_ask),
       Contract("yes2", "YES", "binary", Some(200))>>,
     <<Contract("a", "A", "multi", Some(330)),
       Contract("b", "B", "multi", Some(330))>>}

AnalyzeAsks == {Some(400), Some(650)}

InitAnalyze ==
    /\ IdleCore
    /\ IdleScore
    /\ IdleShare
    /\ IdleMkt
    /\ IdleThr
    /\ \E ask_a \in AnalyzeAsks, ask_b \in AnalyzeAsks :
          \E contracts_a \in ContractLists(ask_a),
             contracts_b \in ContractLists(ask_b) :
             analyze_in =
                 [markets_dict |->
                      register_markets(EmptyDict,
                          <<UnifiedMarket("kalshi", "event-a", contracts_a),
                            UnifiedMarket("polymarket", "event-b", contracts_b)>>),
                  pair |-> CalcPair,
                  min_profit_threshold |-> DefaultMinProfit]
    /\ analyze_out = [done |-> FALSE]

\* detector._analyze_pair(pair), both markets of the pair registered
AnalyzePair ==
    /\ ~analyze_out.done
    /\ analyze_out' =
           [done |-> TRUE,
            opportunities |-> analyze_pair(analyze_in.markets_dict,
                                  analyze_in.pair,
                                  analyze_in.min_profit_threshold)]
    /\ UNCHANGED <<analyze_in, core_vars, score_vars, share_vars, mkt_vars, thr_vars>>

NextAnalyze == AnalyzePair

SpecAnalyze == InitAnalyze /\ [][NextAnalyze]_vars

----------------------------------------------------------------------------
(* SpecShare: two ArbitrageDetector instances.  A dict is an object: the    *)
(* heap maps each dict object to what it holds, and a detector holds the    *)
(* object its constructor stored in self.markets_dict.                      *)

Detectors == {1, 2}

\* Dict object 0 is the one the caller builds and may pass to the
\* constructors; object i is the {} that the constructor of detector i
\* creates when it creates one.
CallerDict == 0

\* self.markets_dict = markets_dict or {}: the object the caller passed
\* when it is a non-empty dict, a new empty dict otherwise.
CtorDictObject(i, markets_dict_arg, heap) ==
    IF markets_dict_arg = None \/ DOMAIN heap[markets_dict_arg[1]] = {}
    THEN i
    ELSE markets_dict_arg[1]

\* What the caller's dict holds: nothing, or market A.
CallerDicts == {EmptyDict, register_markets(EmptyDict, <<MarketA>>)}

ShareMarkets == {MarketA, MarketB}

InitShare ==
    /\ IdleCore
    /\ IdleScore
    /\ IdleAnalyze
    /\ IdleMkt
    /\ IdleThr
    /\ \E caller_dict \in CallerDicts :
          LET heap == [o \in {CallerDict} \cup Detectors |->
                          IF o = CallerDict THEN caller_dict ELSE EmptyDict]
          IN /\ share_heap = heap
             /\ \E args \in [Detectors -> {None, Some(CallerDict)}] :
                    share_det = [i \in Detectors |->
                                    [arg |-> args[i],
                                     markets_dict |->
                                         CtorDictObject(i, args[i], heap)]]
    /\ share_call = [op |-> "init"]

\* self.markets_dict of detector i, as it is now
MarketsDictOf(heap, det, i) == heap[det[i].markets_dict]

\* detector.register_markets([market])
RegisterOn(i) ==
    /\ \E market \in ShareMarkets :
          /\ share_heap' =
                 [share_heap EXCEPT ![share_det[i].markets_dict] =
                      register_markets(@, <<market>>)]
          /\ share_call' = [op |-> "register_markets", inst |-> i,
                            market |-> market]
    /\ UNCHANGED <<share_det, core_vars, score_vars, analyze_vars, mkt_vars, thr_vars>>

\* detector.detect_opportunities(session, matched_pairs=[pair])
DetectOn(i) ==
    /\ share_call' =
           [op |-> "detect_opportunities", inst |-> i,
            result |-> detect_opportunities(
                           MarketsDictOf(share_heap, share_det, i),
                           DefaultMinProfit, DefaultMinSimilarity, << >>,
                           Some(<<CalcPair>>), None)]
    /\ UNCHANGED <<share_heap, share_det, core_vars, score_vars, analyze_vars, mkt_vars, thr_vars>>

NextShare == \E i \in Detectors : RegisterOn(i) \/ DetectOn(i)

SpecShare == InitShare /\ [][NextShare]_vars

----------------------------------------------------------------------------
(* sql_storage.py: the markets table and save_market.  The table has the    *)
(* unique constraint (source, market_id), so it is held as the function     *)
(* from the stored (source, market_id) to the other fields of the row.      *)

\* The characters [a-z0-9_\-] of the ids the model draws.
IdChars == {"a", "b", "c", "d", "p", "s", "_", "-"}
IsIdChar(c) == c \in IdChars
Separators == {"_", "-"}

\* re.sub(r"\s+", "_", s)
SpacesToUnderscore(text) ==
    LET collapsed == CollapseSpaces(text)
    IN [i \in 1..Len(collapsed) |->
           IF collapsed[i] \in SpaceChars THEN "_" ELSE collapsed[i]]

\* re.sub(r"[_\-]{2,}", "_", s)
RECURSIVE CollapseSeparators(_)
CollapseSeparators(text) ==
    IF Len(text) = 0 THEN << >>
    ELSE IF Len(text) >= 2 /\ text[1] \in Separators /\ text[2] \in Separators
    THEN IF Len(text) >= 3 /\ text[3] \in Separators
         THEN CollapseSeparators(Tail(text))
         ELSE <<"_">> \o CollapseSeparators(SubSeq(text, 3, Len(text)))
    ELSE <<Head(text)>> \o CollapseSeparators(Tail(text))

\* _normalize_id_raw: strip, whitespace to "_", lower case, only
\* [a-z0-9_-] kept, runs of separators collapsed; None when nothing is
\* left.  The ids of the model hold no quotes or control characters and
\* are shorter than max_len.
normalize_id_raw(s) ==
    LET s2 == CollapseSeparators(
                  SelectSeq(Lower(SpacesToUnderscore(Strip(s))), IsIdChar))
    IN IF s2 = << >> THEN None ELSE Some(s2)

\* (mutant) the query uses the market_id as given
QueryId_Raw(market_id) == market_id

\* filter_by(market_id=norm_market_id or market.market_id)
QueryId(market_id) ==
    IF normalize_id_raw(market_id) = None THEN market_id
    ELSE normalize_id_raw(market_id)[1]

\* The contract rows inserted: contract ids normalized, a repeated id
\* skipped.
RECURSIVE FreshContracts(_, _)
FreshContracts(contracts, seen) ==
    IF contracts = << >> THEN << >>
    ELSE LET cid == normalize_id_raw(Head(contracts))
         IN IF cid = None \/ cid[1] \in seen
            THEN FreshContracts(Tail(contracts), seen)
            ELSE <<cid[1]>> \o FreshContracts(Tail(contracts), seen \cup {cid[1]})

\* save_market: [raised, rows].  The row is looked up under the normalized
\* market_id and inserted under the market_id as given; the insert of a
\* (source, market_id) that is stored already violates the unique
\* constraint at flush.
save_market(rows, market) ==
    LET found == <<market.source, QueryId(market.market_id)>>
        own == <<market.source, market.market_id>>
        fields == [name |-> market.name,
                   contracts |-> FreshContracts(market.contracts, {})]
    IN IF found \in DOMAIN rows
       THEN [raised |-> None, rows |-> [rows EXCEPT ![found] = fields]]
       ELSE IF own \in DOMAIN rows
       THEN [raised |-> Some("IntegrityError"), rows |-> rows]
       ELSE [raised |-> None,
             rows |-> [k \in DOMAIN rows \cup {own} |->
                          IF k = own THEN fields ELSE rows[k]]]

----------------------------------------------------------------------------
(* SpecMarkets: any sequence of save_market calls on one session.           *)

\* Market ids: "a", "A", "a b" and "a_b".
MarketIds == {<<"a">>, <<"A">>, <<"a", " ", "b">>, <<"a", "_", "b">>}

\* Two versions of a market: its name and the ids of its contracts.
MarketVersions ==
    {[name |-> "v1", contracts |-> <<(<<"a">>), (<<"b">>)>>],
     [name |-> "v2", contracts |-> <<(<<"a">>), (<<"a">>)>>]}

SavedMarkets ==
    {[source |-> "kalshi", market_id |-> mid, name |-> v.name,
      contracts |-> v.contracts] : mid \in MarketIds, v \in MarketVersions}

InitMarkets ==
    /\ IdleCore
    /\ IdleScore
    /\ IdleAnalyze
    /\ IdleShare
    /\ IdleThr
    /\ mkt_rows = EmptyDict
    /\ mkt_latest = EmptyDict
    /\ mkt_call = [op |-> "init"]

\* save_market(session, market)
SaveMarket ==
    /\ \E market \in SavedMarkets :
          LET out == save_market(mkt_rows, market)
              key == <<market.source, market.market_id>>
          IN /\ mkt_rows' = out.rows
             /\ mkt_call' = [op |-> "save_market", market |-> market,
                             raised |-> out.raised]
             /\ mkt_latest' = [k \in DOMAIN mkt_latest \cup {key} |->
                                  IF k = key THEN market ELSE mkt_latest[k]]
    /\ UNCHANGED <<core_vars, score_vars, analyze_vars, share_vars, thr_vars>>

NextMarkets == SaveMarket

SpecMarkets == InitMarkets /\ [][NextMarkets]_vars

----------------------------------------------------------------------------
(* SpecThreads: two threads call find_matches on one MarketMatcher, or      *)
(* predict on one trained MatcherClassifier, at the same time.  find_matches *)
(* fits self._vectorizer, the one TfidfVectorizer of the instance, on the   *)
(* names of the call and then transforms them with it; a thread may run     *)
(* between the two.                                                         *)

Threads == {1, 2}

CatalogMarket(mid) == CHOOSE m \in MatchCatalog : m.market_id = mid

FindCall(mids_a, mids_b) ==
    [op |-> "find_matches",
     markets_a |-> [i \in 1..Len(mids_a) |-> CatalogMarket(mids_a[i])],
     markets_b |-> [i \in 1..Len(mids_b) |-> CatalogMarket(mids_b[i])]]

PredictCall(pair) ==
    [op |-> "predict", market_a |-> pair[1], market_b |-> pair[2]]

\* The calls of a thread: find_matches on names with the n-grams {ab},
\* {cd}, and {ab, cd} (twice), and two predict calls.
ThreadCalls ==
    {FindCall(<<"k1">>, <<"p1">>), FindCall(<<"k3">>, <<"p2">>),
     FindCall(<<"k1">>, <<"p2">>), FindCall(<<"k1", "k3">>, <<"p1", "p2">>),
     PredictCall(<<MarketById("k1"), MarketById("p1")>>),
     PredictCall(<<MarketById("k1"), MarketById("p2")>>)}

\* The classifier the predict calls share, after train() returned.
TrainedClassifier ==
    train(MatcherClassifierInit,
          <<(<<MarketById("k1"), MarketById("p1")>>)>>,
          <<(<<MarketById("k1"), MarketById("p2")>>)>>,
          [coef |-> <<2000, 0 - 1500, 1000>>, intercept |-> 250]).self

\* all_names of a find_matches call
AllNames(call) ==
    [i \in 1..Len(call.markets_a) |-> clean_text(call.markets_a[i].name)]
        \o [i \in 1..Len(call.markets_b) |-> clean_text(call.markets_b[i].name)]

\* The vocabulary fit learns from the names: the n-grams that occur.
Vocabulary(names) == UNION {Ngrams(names[i]) : i \in 1..Len(names)}

\* What the call returns when no other call runs.
CallAlone(call) ==
    IF call.op = "find_matches"
    THEN LET out == find_matches(DefaultMatcher, call.markets_a,
                                 Some(call.markets_b), TRUE)
         IN [raised |-> out.raised, value |-> out.matches]
    ELSE LET out == predict(TrainedClassifier, call.market_a, call.market_b)
         IN [raised |-> out.raised, value |-> out.value]

\* The names whose idf weights the transform of a call uses: those the
\* shared vectorizer was last fitted on.
FittedFor(vectorizer, call) == vectorizer[1]

InitThreads ==
    /\ IdleCore
    /\ IdleScore
    /\ IdleAnalyze
    /\ IdleShare
    /\ IdleMkt
    /\ thr_vectorizer = None
    /\ thr_call \in [Threads -> ThreadCalls]
    /\ thr_pc = [t \in Threads |-> "start"]
    /\ thr_out = [t \in Threads |-> None]

\* The fit half of self._vectorizer.fit_transform(all_names): the
\* vocabulary and the idf weights of the names are stored on the
\* vectorizer.
FitVectorizer(t) ==
    /\ thr_pc[t] = "start"
    /\ thr_call[t].op = "find_matches"
    /\ thr_vectorizer' = Some(AllNames(thr_call[t]))
    /\ thr_pc' = [thr_pc EXCEPT ![t] = "fitted"]
    /\ UNCHANGED <<thr_call, thr_out>>

\* The transform half and the rest of find_matches.  The counts of the
\* call's names are weighted with the idf the vectorizer holds now: with
\* as many weights as the call's names have n-grams the similarities are
\* those of CosineSimilarity, otherwise the shapes differ and the
\* transform raises ValueError.
TransformAndScore(t) ==
    /\ thr_pc[t] = "fitted"
    /\ LET fitted == FittedFor(thr_vectorizer, thr_call[t])
       IN thr_out' = [thr_out EXCEPT ![t] =
              IF Cardinality(Vocabulary(fitted))
                     = Cardinality(Vocabulary(AllNames(thr_call[t])))
              THEN Some(CallAlone(thr_call[t]))
              ELSE Some([raised |-> Some("ValueError"), value |-> << >>])]
    /\ thr_pc' = [thr_pc EXCEPT ![t] = "done"]
    /\ UNCHANGED <<thr_vectorizer, thr_call>>

\* predict reads self.scaler and self.model and writes nothing.
PredictOn(t) ==
    /\ thr_pc[t] = "start"
    /\ thr_call[t].op = "predict"
    /\ thr_out' = [thr_out EXCEPT ![t] = Some(CallAlone(thr_call[t]))]
    /\ thr_pc' = [thr_pc EXCEPT ![t] = "done"]
    /\ UNCHANGED <<thr_vectorizer, thr_call>>

NextThreads ==
    /\ \E t \in Threads :
          \/ FitVectorizer(t)
          \/ TransformAndScore(t)
          \/ PredictOn(t)
    /\ UNCHANGED <<core_vars, score_vars, analyze_vars, share_vars, mkt_vars>>

SpecThreads == InitThreads /\ [][NextThreads]_vars

----------------------------------------------------------------------------
(* Properties of _calculate_both_sides_opportunity, under SpecCalc          *)

CalcProduced == calc_out.done /\ calc_out.opp # None

\* The worked example of the tests: A = YES 0.40 / NO 0.60 and
\* B = YES 0.65 / NO 0.30, all four quoted as asks.
IsWorkedExample ==
    /\ calc_in.yes_a.price_ask = Some(400)
    /\ calc_in.no_a.price_ask = Some(600)
    /\ calc_in.yes_b.price_ask = Some(650)
    /\ calc_in.no_b.price_ask = Some(300)

\* |x - y| <= z
Within(x, y, z) == x - y <= z /\ y - x <= z

AskElseLast(c) == IF c.price_ask # None THEN c.price_ask ELSE c.last_price

\* C2: for each of the four contracts, the effective price the calculation
\* uses is the contract's ask whenever an ask is present, and its last-traded
\* price only when the ask is absent.
C2_EffectivePriceIsAskWhenPresent ==
    calc_out.done =>
        /\ calc_out.prices[1] = AskElseLast(calc_in.yes_a)
        /\ calc_out.prices[2] = AskElseLast(calc_in.no_a)
        /\ calc_out.prices[3] = AskElseLast(calc_in.yes_b)
        /\ calc_out.prices[4] = AskElseLast(calc_in.no_b)

----------------------------------------------------------------------------
(* Properties of detect_opportunities and find_best_opportunity, under Spec *)

IsDetect == last_call.op = "detect_opportunities"
IsFindBest == last_call.op = "find_best_opportunity"

\* The pairs the last detect_opportunities call was given or fetched.
Batch ==
    PairsToAnalyze(session_rows, min_similarity,
                   last_call.matched_pairs, last_call.min_similarity)

\* The returned opportunities that come from the matched pair with this id.
OppsOf(id) == SelectSeq(result, LAMBDA o : o.matched_pair_id = id)

\* The YES (k = 1) or NO (k = 2) contract of the market is absent, or has
\* neither an ask nor a last-traded price.
SidePriceMissing(market, k) ==
    LET c == extract_binary_contracts(market)[k]
    IN c = None \/ (c[1].price_ask = None /\ c[1].last_price = None)

\* The three data-quality problems of a matched pair.
HasDataProblem(p) ==
    LET ka == KeyOf(p.source_a, p.market_id_a)
        kb == KeyOf(p.source_b, p.market_id_b)
    IN \/ ka \notin DOMAIN markets_dict
       \/ kb \notin DOMAIN markets_dict
       \/ ~is_binary_market(markets_dict[ka])
       \/ ~is_binary_market(markets_dict[kb])
       \/ \E m \in {markets_dict[ka], markets_dict[kb]}, k \in 1..2 :
             SidePriceMissing(m, k)

\* C3: after detect_opportunities, a pair of the batch whose market key is
\* not registered, whose market fails the binary-market check or for which
\* one of the four prices is missing contributes no opportunity; every other
\* pair of the batch contributes what its own analysis yields, wherever it
\* stands in the batch; and the result holds nothing else.
C3_DataProblemsSkipOnlyTheirPair ==
    IsDetect =>
        /\ \A i \in DOMAIN Batch :
              OppsOf(Batch[i].id) =
                  IF HasDataProblem(Batch[i]) THEN << >>
                  ELSE analyze_pair(markets_dict, Batch[i], min_profit_threshold)
        /\ \A j \in DOMAIN result :
              \E i \in DOMAIN Batch : Batch[i].id = result[j].matched_pair_id

\* C3 witness: a batch in which a pair with a data problem stands before a
\* pair whose opportunity is returned.
C3_Witness ==
    /\ IsDetect
    /\ \E i, j \in DOMAIN Batch :
          /\ i < j
          /\ HasDataProblem(Batch[i])
          /\ OppsOf(Batch[j].id) # << >>

\* The four quotes of a pair without data problems: YES and NO of market A,
\* YES and NO of market B, each the ask or else the last-traded price.
QuotesOf(p) ==
    LET ea == extract_binary_contracts(
                  markets_dict[KeyOf(p.source_a, p.market_id_a)])
        eb == extract_binary_contracts(
                  markets_dict[KeyOf(p.source_b, p.market_id_b)])
    IN <<AskElseLast(ea[1][1])[1], AskElseLast(ea[2][1])[1],
         AskElseLast(eb[1][1])[1], AskElseLast(eb[2][1])[1]>>

PassesChecks(p) ==
    /\ ~HasDataProblem(p)
    /\ \A k \in 1..4 : 0 <= QuotesOf(p)[k] /\ QuotesOf(p)[k] <= One

HedgeProfit(p) ==
    One - (Min2(QuotesOf(p)[1], QuotesOf(p)[3])
           + Min2(QuotesOf(p)[2], QuotesOf(p)[4]))

\* C4: after detect_opportunities, each pair of the batch has at most one
\* opportunity in the result; it has exactly one when it passes the
\* registry, binary and price checks and its profit is at least
\* min_profit_threshold, and none otherwise; every returned opportunity has
\* min_profit >= min_profit_threshold.
C4_AtMostOnePerPairThresholdInclusive ==
    IsDetect =>
        /\ \A i \in DOMAIN Batch :
              /\ Len(OppsOf(Batch[i].id)) <= 1
              /\ Len(OppsOf(Batch[i].id)) = 1
                    <=> (/\ PassesChecks(Batch[i])
                         /\ HedgeProfit(Batch[i]) >= min_profit_threshold)
        /\ \A j \in DOMAIN result :
              result[j].min_profit >= min_profit_threshold

\* C4 witness: a batch with a pair whose profit equals the threshold, kept,
\* and a pair that passes the checks with a smaller profit, dropped.
C4_Witness ==
    /\ IsDetect
    /\ \E i, j \in DOMAIN Batch :
          /\ PassesChecks(Batch[i])
          /\ HedgeProfit(Batch[i]) = min_profit_threshold
          /\ Len(OppsOf(Batch[i].id)) = 1
          /\ PassesChecks(Batch[j])
          /\ HedgeProfit(Batch[j]) < min_profit_threshold
          /\ OppsOf(Batch[j].id) = << >>

SortedByMinProfitDesc(opps) ==
    \A i, j \in DOMAIN opps : i < j => opps[i].min_profit >= opps[j].min_profit

\* C6: the list detect_opportunities returns is in descending order of
\* min_profit whatever the order of the pairs it analysed, and
\* find_best_opportunity(limit) returns the first limit entries of the list
\* detect_opportunities(session) returns.
C6_SortedDescendingAndBestFirst ==
    /\ IsDetect => SortedByMinProfitDesc(result)
    /\ IsFindBest =>
          LET all == detect_opportunities(markets_dict, min_profit_threshold,
                                          min_similarity, session_rows,
                                          None, None)
          IN /\ SortedByMinProfitDesc(result)
             /\ Len(result) = Min2(last_call.limit, Len(all))
             /\ \A i \in DOMAIN result : result[i] = all[i]

\* C6 witness: the caller passed two pairs, the less profitable first, and
\* the result lists the opportunity of the second pair first.
C6_Witness ==
    /\ IsDetect
    /\ last_call.matched_pairs # None
    /\ Len(last_call.matched_pairs[1]) = 2
    /\ Len(result) = 2
    /\ result[1].matched_pair_id = last_call.matched_pairs[1][2].id
    /\ result[2].matched_pair_id = last_call.matched_pairs[1][1].id
    /\ result[1].min_profit > result[2].min_profit

\* The effective minimum similarity of the last call.
EffectiveMin == EffectiveMinSim(min_similarity, last_call.min_similarity)

AllAtOrAbove(opps, min_sim) ==
    \A i \in DOMAIN opps : opps[i].match_similarity >= min_sim

\* C7: every opportunity detect_opportunities returns comes from a pair
\* whose similarity is at least the effective minimum similarity, whether
\* the pairs were fetched by the detector or passed in by the caller.
C7_LowSimilarityFilteredAlways ==
    IsDetect => AllAtOrAbove(result, EffectiveMin)

\* C7 (amended): when the detector fetches the pairs itself (matched_pairs
\* omitted, or find_best_opportunity), every opportunity returned comes from
\* a pair whose similarity is at least the effective minimum similarity;
\* pairs passed in by the caller are analysed as given.
C7_LowSimilarityFilteredWhenFetched ==
    /\ (IsDetect /\ last_call.matched_pairs = None)
          => AllAtOrAbove(result, EffectiveMin)
    /\ IsFindBest => AllAtOrAbove(result, min_similarity)
    /\ (IsDetect /\ last_call.matched_pairs # None)
          => \A i \in DOMAIN result :
                \E k \in DOMAIN last_call.matched_pairs[1] :
                    last_call.matched_pairs[1][k].id = result[i].matched_pair_id

\* C7 witness: the detector fetched the pairs, returned an opportunity, and
\* the session holds a pair under the effective minimum whose analysis
\* yields an opportunity of its own.
C7_Witness ==
    /\ IsDetect
    /\ last_call.matched_pairs = None
    /\ result # << >>
    /\ \E i \in DOMAIN session_rows :
          /\ session_rows[i].similarity < EffectiveMin
          /\ analyze_pair(markets_dict, session_rows[i],
                          min_profit_threshold) # << >>

----------------------------------------------------------------------------
(* Properties of the registry, under SpecRegistry                           *)

\* The registry holds, under each key, the market last handed over under it,
\* and no other key.
RegistryIsLastRegistered ==
    /\ DOMAIN markets_dict = {k \in Keys : registered[k] # None}
    /\ \A k \in DOMAIN markets_dict : markets_dict[k] = registered[k][1]

\* Registering a list a second time changes nothing.
ReRegisterIsNoOp ==
    \A l \in SeqsUpTo(Catalog, MaxRegBatch) :
        register_markets(register_markets(markets_dict, l), l)
            = register_markets(markets_dict, l)

\* C8: after any sequence of register_markets calls the registry maps each
\* (source, market_id) key to the market most recently registered under it
\* and holds no other key; registering the same list again leaves it
\* unchanged; and detect_opportunities and find_best_opportunity never
\* change it.
C8_RegistryLastWriteWins ==
    /\ [](RegistryIsLastRegistered /\ ReRegisterIsNoOp)
    /\ [][last_call'.op \in {"detect_opportunities", "find_best_opportunity"}
              => markets_dict' = markets_dict]_vars

\* C8 witness: a registration has replaced a market held under its key, and
\* the registry holds two keys or more.
C8_Witness ==
    /\ last_call.op = "register_markets"
    /\ overwrote
    /\ Cardinality(DOMAIN markets_dict) >= 2
    /\ RegistryIsLastRegistered

----------------------------------------------------------------------------
(* Properties of save_matched_pair, under SpecStore                         *)

\* Lexicographic order on (source, market_id) keys.
LexSmaller(x, y) ==
    \/ StrIndex(x[1]) < StrIndex(y[1])
    \/ (StrIndex(x[1]) = StrIndex(y[1]) /\ StrIndex(x[2]) < StrIndex(y[2]))

\* The unordered pair of keys a row or a call's arguments name.
RowKeys(r) == {<<r.source_a, r.market_id_a>>, <<r.source_b, r.market_id_b>>}

OneRowPerUnorderedPair ==
    \A i, j \in DOMAIN store_rows :
        i # j => RowKeys(store_rows[i]) # RowKeys(store_rows[j])

SmallerKeyFirst ==
    \A i \in DOMAIN store_rows :
        ~LexSmaller(<<store_rows[i].source_b, store_rows[i].market_id_b>>,
                    <<store_rows[i].source_a, store_rows[i].market_id_a>>)

ScoresAre(row, a) ==
    /\ row.similarity = Some(a.similarity)
    /\ row.classifier_probability = a.classifier_probability
    /\ row.name_similarity = a.name_similarity
    /\ row.category_similarity = a.category_similarity
    /\ row.temporal_proximity = a.temporal_proximity
    /\ row.notes = a.notes

\* A save_matched_pair step: it does not fail; afterwards exactly one row
\* names the unordered pair of the arguments, in either argument order; a
\* row is added only if none named the pair before; that row holds the
\* scores of the call and the time of the call as updated_at, and keeps its
\* id, created_at and confirmation when it existed; every other row is
\* untouched.
SaveStepUpserts ==
    store_call'.op = "save_matched_pair" =>
        LET a == store_call'.args
            old == {i \in DOMAIN store_rows : RowKeys(store_rows[i]) = RowKeys(a)}
            new == {i \in DOMAIN store_rows' : RowKeys(store_rows'[i]) = RowKeys(a)}
        IN /\ ~store_call'.raised
           /\ Cardinality(new) = 1
           /\ Len(store_rows') =
                 IF old = {} THEN Len(store_rows) + 1 ELSE Len(store_rows)
           /\ old # {} => new = old
           /\ \A i \in new :
                 /\ store_call'.index = i
                 /\ ScoresAre(store_rows'[i], a)
                 /\ store_rows'[i].updated_at = store_clock'
                 /\ i \in old =>
                       /\ store_rows'[i].id = store_rows[i].id
                       /\ store_rows'[i].created_at = store_rows[i].created_at
                       /\ store_rows'[i].is_manual_confirmed
                              = store_rows[i].is_manual_confirmed
           /\ \A i \in (DOMAIN store_rows) \ old : store_rows'[i] = store_rows[i]

\* C9: after any sequence of save_matched_pair calls the table holds at most
\* one row per unordered pair of (source, market_id) keys, each stored with
\* the lexicographically smaller key first; save_matched_pair(A, B, ...) and
\* save_matched_pair(B, A, ...) resolve to the same row, and saving a pair
\* that is stored overwrites its score fields and updated_at and adds no row.
C9_CanonicalUpsert ==
    /\ [](OneRowPerUnorderedPair /\ SmallerKeyFirst)
    /\ [][SaveStepUpserts]_vars

\* C9 witness: a call that names the larger key first has updated a row
\* stored earlier, at an earlier time, among several rows.
C9_Witness ==
    /\ store_call.op = "save_matched_pair"
    /\ LexSmaller(<<store_call.args.source_b, store_call.args.market_id_b>>,
                  <<store_call.args.source_a, store_call.args.market_id_a>>)
    /\ ~store_call.raised
    /\ store_call.index < Len(store_rows)
    /\ store_rows[store_call.index].created_at
           < store_rows[store_call.index].updated_at
    /\ ScoresAre(store_rows[store_call.index], store_call.args)
    /\ store_rows[store_call.index].source_a = store_call.args.source_b
    /\ store_rows[store_call.index].market_id_a = store_call.args.market_id_b

----------------------------------------------------------------------------
(* Properties of find_matches, under SpecMatch                              *)

MatchReturned == match_out.done /\ match_out.raised = None

\* C10: find_matches(markets, markets), the same list given as both
\* arguments, returns no self-pair (a result that joins an element of the
\* list with itself) for either value of cross_source_only; and when
\* markets_b is omitted every result joins an element with a later one, so
\* no unordered pair is reported twice.
C10_NoSelfPair ==
    MatchReturned =>
        /\ match_in.markets_b = Some(match_in.markets_a) =>
              \A k \in DOMAIN match_out.matches :
                  match_out.matches[k].i # match_out.matches[k].j
        /\ match_in.markets_b = None =>
              /\ \A k \in DOMAIN match_out.matches :
                    match_out.matches[k].i < match_out.matches[k].j
              /\ \A k, l \in DOMAIN match_out.matches :
                    k # l => {match_out.matches[k].i, match_out.matches[k].j}
                             # {match_out.matches[l].i, match_out.matches[l].j}

\* The index pairs of the last call that pass the two guards of the loop
\* (the self-match guard and the source guard), and the overall score of
\* such a pair.
WithinSameList == match_in.markets_b = None
MarketsB == IF WithinSameList THEN match_in.markets_a ELSE match_in.markets_b[1]

ComparedPairs ==
    {q \in (DOMAIN match_in.markets_a) \X (DOMAIN MarketsB) :
        /\ ~(WithinSameList /\ q[1] >= q[2])
        /\ ~(match_in.cross_source_only
             /\ match_in.markets_a[q[1]].source = MarketsB[q[2]].source)}

ScoreOf(self, market_a, market_b) ==
    OverallScore(self,
                 CosineSimilarity(clean_text(market_a.name),
                                  clean_text(market_b.name)),
                 compute_category_similarity(market_a, market_b),
                 compute_contract_similarity(market_a, market_b),
                 compute_temporal_similarity(self, market_a, market_b))

\* C11: with cross_source_only=True no result of find_matches joins two
\* markets of the same source.
C11_CrossSourceOnly ==
    (MatchReturned /\ match_in.cross_source_only) =>
        \A k \in DOMAIN match_out.matches :
            match_out.matches[k].market_a.source
                # match_out.matches[k].market_b.source

\* C11 witness: a call with cross_source_only=True that returned a match
\* while two markets of one source, at or above the threshold, were left out.
C11_Witness ==
    /\ MatchReturned
    /\ match_in.cross_source_only
    /\ match_out.matches # << >>
    /\ \E i \in DOMAIN match_in.markets_a, j \in DOMAIN MarketsB :
          /\ ~(WithinSameList /\ i >= j)
          /\ match_in.markets_a[i].source = MarketsB[j].source
          /\ ScoreOf(DefaultMatcher, match_in.markets_a[i], MarketsB[j])
                 >= DefaultMinScoreThreshold * One

\* C12: every result of find_matches has an overall score of at least
\* min_score_threshold, every compared pair whose score is at least
\* min_score_threshold is among the results, and the results are in
\* descending order of overall score.
C12_ThresholdAndOrder ==
    MatchReturned =>
        /\ \A k \in DOMAIN match_out.matches :
              match_out.matches[k].match_score
                  >= DefaultMinScoreThreshold * One
        /\ \A q \in ComparedPairs :
              ScoreOf(DefaultMatcher, match_in.markets_a[q[1]], MarketsB[q[2]])
                  >= DefaultMinScoreThreshold * One
              => \E k \in DOMAIN match_out.matches :
                    /\ match_out.matches[k].i = q[1]
                    /\ match_out.matches[k].j = q[2]
                    /\ match_out.matches[k].match_score
                           = ScoreOf(DefaultMatcher, match_in.markets_a[q[1]],
                                     MarketsB[q[2]])
        /\ \A k, l \in DOMAIN match_out.matches :
              k < l => match_out.matches[k].match_score
                           >= match_out.matches[l].match_score

\* C12 witness: two results, the one found second by the loops listed
\* first, the other with a score equal to the threshold, and a compared
\* pair under the threshold left out.
C12_Witness ==
    /\ MatchReturned
    /\ Len(match_out.matches) = 2
    /\ match_out.matches[1].i > match_out.matches[2].i
    /\ match_out.matches[1].match_score > match_out.matches[2].match_score
    /\ match_out.matches[2].match_score = DefaultMinScoreThreshold * One
    /\ Cardinality(ComparedPairs) > 2

\* C13: find_matches returns an empty list, without raising, whenever
\* markets_a is empty or markets_b is empty: both empty, only one of them
\* empty, or markets_b omitted with markets_a empty.
C13_EmptyInputsGiveEmptyResults ==
    (match_out.done /\ (match_in.markets_a = << >> \/ MarketsB = << >>)) =>
        /\ match_out.raised = None
        /\ match_out.matches = << >>

----------------------------------------------------------------------------
(* Properties of MarketMatcher(...) and match_single_pair, under SpecPair   *)

PairReturned == pair_out.done /\ pair_out.raised = None

\* The result is the zero-score result for the two markets.
IsNoMatchResult(r) ==
    /\ r.match_score = 0
    /\ r.name_similarity = 0 /\ r.category_similarity = 0
    /\ r.contract_similarity = 0 /\ r.temporal_proximity = 0
    /\ r.confidence = "low" /\ r.notes = "No match found"

\* C14: match_single_pair never fails; for every pair of markets it returns
\* a MatchResult for exactly those two markets, either the scored result
\* with score >= min_score_threshold or the zero-score result with all four
\* component scores 0.0, confidence "low" and notes "No match found".
C14_SinglePairNeverFails ==
    pair_out.done =>
        /\ pair_out.raised = None
        /\ pair_out.result # None
        /\ pair_out.result[1].market_a = pair_in.market_a
        /\ pair_out.result[1].market_b = pair_in.market_b
        /\ \/ pair_out.result[1].match_score
                  >= matcher.self.min_score_threshold * One
           \/ IsNoMatchResult(pair_out.result[1])

\* C15: the name_similarity of a scored result of match_single_pair is the
\* fuzzy ratio of the two cleaned names, the metric of _fuzzy_match.
C15_SinglePairUsesFuzzyRatio ==
    (PairReturned /\ ~IsNoMatchResult(pair_out.result[1])) =>
        pair_out.result[1].name_similarity
            = fuzzy_match(pair_in.market_a.name, pair_in.market_b.name)

\* The sum of the four weights given to the constructor.
WeightSum ==
    matcher_args.name_weight + matcher_args.category_weight
    + matcher_args.contract_weight + matcher_args.temporal_weight

\* C16: the constructor raises exactly when |sum of the weights - 1.0| >
\* 0.01; otherwise the instance holds the four weights as they were given.
C16_WeightsCheckedNotRenormalized ==
    matcher.status # "new" =>
        /\ matcher.status = "raised"
              <=> (WeightSum - One > WeightTolerance
                   \/ One - WeightSum > WeightTolerance)
        /\ matcher.status = "built" =>
              /\ matcher.self.name_weight = matcher_args.name_weight
              /\ matcher.self.category_weight = matcher_args.category_weight
              /\ matcher.self.contract_weight = matcher_args.contract_weight
              /\ matcher.self.temporal_weight = matcher_args.temporal_weight

\* C16 witness: weights that sum to 1.005 were accepted and are held as
\* given.
C16_Witness ==
    /\ matcher.status = "built"
    /\ WeightSum = 1005
    /\ matcher.self.name_weight = 405
    /\ matcher.self.name_weight + matcher.self.category_weight
       + matcher.self.contract_weight + matcher.self.temporal_weight = 1005

\* C17: for every weight configuration the constructor accepts, the overall
\* score of a scored pair lies in [0, 1] (the four component scores do).
C17_OverallScoreInUnitInterval ==
    (PairReturned /\ ~IsNoMatchResult(pair_out.result[1])) =>
        LET r == pair_out.result[1]
        IN (/\ 0 <= r.name_similarity /\ r.name_similarity <= One
            /\ 0 <= r.category_similarity /\ r.category_similarity <= One
            /\ 0 <= r.contract_similarity /\ r.contract_similarity <= One
            /\ 0 <= r.temporal_proximity /\ r.temporal_proximity <= One)
           => (0 <= r.match_score /\ r.match_score <= One * One)

----------------------------------------------------------------------------
(* Properties of MatcherClassifier, under SpecClassifier                    *)

GuardedOps == {"predict", "save", "get_feature_importance"}

\* The step is a call of predict, save or get_feature_importance on an
\* instance on which no train or load has succeeded.
GuardedCallBeforeFit ==
    /\ clf_call'.op \in GuardedOps
    /\ ~clf_ok[clf_call'.inst]

FailsFast ==
    /\ clf_call'.raised = Some("ValueError")
    /\ clf' = clf
    /\ ~clf'[clf_call'.inst].is_fitted
    /\ clf_file' = clf_file

PredictAfterFit ==
    (clf_call.op = "predict" /\ clf_ok[clf_call.inst])
        => /\ clf_call.raised = None
           /\ clf_call.value # None
           /\ clf_call.value[1] \in 0..One

\* C18: on an instance on which no train or load has succeeded yet,
\* predict, save and get_feature_importance raise the invalid-state error
\* (ValueError) and leave is_fitted false and every model, scaler and the
\* file as they were; on an instance that was trained on at least one
\* positive and one negative pair (or loaded from a saved file), predict
\* returns a probability in [0, 1].
C18_UnfittedCallsFailFast ==
    [][GuardedCallBeforeFit => FailsFast]_vars /\ []PredictAfterFit

C18_Witness ==
    /\ clf_call.op \in GuardedOps
    /\ clf_call.inst = 2
    /\ ~clf_ok[2]
    /\ clf_call.raised = Some("ValueError")
    /\ clf_ok[1]
    /\ clf[1].is_fitted

PredictionsOf(self) ==
    [pair \in PredictPairs |-> predict(self, pair[1], pair[2])]

\* C19: right after a load of the file a fitted classifier was saved to,
\* the loading instance is fitted, its model and scaler are the ones the
\* saving instance had when it saved, and predict on it returns for every
\* pair of markets the probability the saving instance returned.
C19_SaveLoadRoundTrip ==
    (clf_call.op = "load" /\ clf_call.raised = None)
        => /\ clf_saved # None
           /\ LET loaded == clf[clf_call.inst]
                  saver == clf_saved[1].self
              IN /\ loaded.is_fitted
                 /\ loaded.model = saver.model
                 /\ loaded.scaler = saver.scaler
                 /\ PredictionsOf(loaded) = PredictionsOf(saver)
                 /\ \A pair \in PredictPairs :
                        PredictionsOf(loaded)[pair].raised = None

\* Instance 2, never trained, has loaded what instance 1 saved, and the
\* predictions are not all the same number.
C19_Witness ==
    /\ clf_call.op = "load"
    /\ clf_call.inst = 2
    /\ clf_call.raised = None
    /\ clf_saved # None
    /\ clf_saved[1].by = 1
    /\ clf[2].is_fitted
    /\ \E p \in PredictPairs, q \in PredictPairs :
           PredictionsOf(clf[2])[p].value # PredictionsOf(clf[2])[q].value

ImportanceNames == {FeatureNames[f] : f \in Features}

ImportanceIsNormalized(self, value) ==
    LET coefs == [f \in Features |-> Abs(self.model[1].coef[f])]
        total == coefs[1] + coefs[2] + coefs[3]
    IN /\ DOMAIN value = ImportanceNames
       /\ \A f \in Features :
              /\ ~value[FeatureNames[f]].nan
              /\ value[FeatureNames[f]].v >= 0
              /\ total # 0
              /\ value[FeatureNames[f]].v = (coefs[f] * One) \div total
       /\ Within(value["tfidf_sim"].v + value["time_diff"].v
                 + value["category_match"].v, One, 10)

\* C20: on an instance that was trained, get_feature_importance returns
\* one value for each of tfidf_sim, time_diff and category_match, each a
\* non-negative number equal to |coefficient| divided by the sum of the
\* three |coefficients|, and the three sum to 1.0 within 0.01.
C20_FeatureImportanceNormalized ==
    (clf_call.op = "get_feature_importance" /\ clf_ok[clf_call.inst])
        => /\ clf_call.raised = None
           /\ clf_call.value # None
           /\ ImportanceIsNormalized(clf[clf_call.inst], clf_call.value[1])

----------------------------------------------------------------------------
(* Properties of the matcher's scoring functions, under SpecScore           *)

Parsed(market) == market.event_time # None /\ market.event_time[1].parses

HoursOf(market) ==
    market.event_time[1].day * 24 + market.event_time[1].hour

\* Whole days between the two event times, whichever is first.
DaysBetween(market_a, market_b) ==
    Abs(HoursOf(market_a) - HoursOf(market_b)) \div 24

SameDay(market_a, market_b) ==
    market_a.event_time[1].day = market_b.event_time[1].day

\* C23: temporal proximity is 0.5 when either event time is missing or
\* does not parse; otherwise 1.0 when both are on the same calendar day,
\* whatever the times of day and whichever market is first, 1 - days /
\* max_days_apart when they are 1..max_days_apart whole days apart, and 0.0
\* beyond the window.
C23_TemporalProximity ==
    score_out.op = "similarities" =>
        LET a == score_in.market_a
            b == score_in.market_b
        IN IF ~Parsed(a) \/ ~Parsed(b)
           THEN score_out.temporal = 500
           ELSE /\ SameDay(a, b) => score_out.temporal = One
                /\ (DaysBetween(a, b) >= 1
                    /\ DaysBetween(a, b) <= DefaultMaxDaysApart)
                       => score_out.temporal
                              = One - (One * DaysBetween(a, b))
                                          \div DefaultMaxDaysApart
                /\ DaysBetween(a, b) > DefaultMaxDaysApart
                       => score_out.temporal = 0

ScoredResult ==
    /\ score_out.op = "find_matches"
    /\ score_out.raised = None
    /\ score_out.matches # << >>

PairsOf(s) == {s[k] : k \in 1..Len(s)}

\* C25: the matched contract pairs are exactly the pairs of a contract of
\* A and a contract of B whose names are more than 0.6 similar and whose
\* outcome types are equal; no pair joins two outcome types.
C25_ContractPairing ==
    score_out.op = "match_contracts" =>
        LET contracts_a == score_in.market_a.contracts
            contracts_b == score_in.market_b.contracts
        IN /\ PairsOf(score_out.pairs)
                = {<<contracts_a[i], contracts_b[j]>> :
                       <<i, j>> \in
                           {ij \in (DOMAIN contracts_a) \X (DOMAIN contracts_b) :
                                /\ Ratio(clean_text(contracts_a[ij[1]].name),
                                         clean_text(contracts_b[ij[2]].name))
                                       > 600
                                /\ contracts_a[ij[1]].outcome_type
                                       = contracts_b[ij[2]].outcome_type}}
           /\ \A k \in 1..Len(score_out.pairs) :
                  score_out.pairs[k][1].outcome_type
                      = score_out.pairs[k][2].outcome_type

\* C25 witness: one contract of A is paired with two contracts of B, and
\* two contracts with the same name and different outcome types are not
\* paired.
C25_Witness ==
    /\ score_out.op = "match_contracts"
    /\ \E k \in 1..Len(score_out.pairs), l \in 1..Len(score_out.pairs) :
           /\ score_out.pairs[k][1] = score_out.pairs[l][1]
           /\ score_out.pairs[k][2] # score_out.pairs[l][2]
    /\ score_in.market_a.contracts = YesScalar
    /\ score_in.market_b.contracts = YesTwice

ReverseMatches ==
    find_matches(DefaultMatcher, <<score_in.market_b>>,
                 Some(<<score_in.market_a>>), FALSE)

\* C28: the category, contract and temporal similarity of (a, b) equal
\* those of (b, a), and find_matches([a], [b]) and find_matches([b], [a])
\* report the same overall score and confidence for the two markets.
C28_ScoreIsSymmetric ==
    /\ score_out.op = "similarities" =>
           /\ score_out.category
                  = compute_category_similarity(score_in.market_b,
                                                score_in.market_a)
           /\ score_out.contract
                  = compute_contract_similarity(score_in.market_b,
                                                score_in.market_a)
           /\ score_out.temporal
                  = compute_temporal_similarity(DefaultMatcher,
                        score_in.market_b, score_in.market_a)
    /\ score_out.op = "find_matches" =>
           /\ score_out.raised = ReverseMatches.raised
           /\ Len(score_out.matches) = Len(ReverseMatches.matches)
           /\ score_out.matches # << >> =>
                  /\ score_out.matches[1].match_score
                         = ReverseMatches.matches[1].match_score
                  /\ score_out.matches[1].confidence
                         = ReverseMatches.matches[1].confidence

----------------------------------------------------------------------------
(* Properties of the detector's restriction to binary contracts             *)

\* C27: with min_profit_threshold > 0.001 every opportunity produced has
\* is_arbitrage true, type "both_sides" and 0 < total_investment < 1; an
\* opportunity of type "hedge" is produced only with min_profit_threshold
\* <= 0.001.
C27_OnlyArbitrageAboveTolerance ==
    CalcProduced =>
        LET opp == calc_out.opp[1]
        IN /\ calc_in.threshold > ArbTolerance =>
                  /\ opp.is_arbitrage
                  /\ opp.arbitrage_type = "both_sides"
                  /\ 0 < opp.total_investment
                  /\ opp.total_investment < One
           /\ opp.arbitrage_type = "hedge" => calc_in.threshold <= ArbTolerance

\* C27 witness: with the threshold 0.002 an opportunity of profit 0.002 is
\* produced.
C27_Witness ==
    /\ CalcProduced
    /\ calc_in.threshold = 2
    /\ calc_out.opp[1].min_profit = 2
    /\ calc_out.opp[1].arbitrage_type = "both_sides"

\* C26: in every opportunity _analyze_pair produces, the four contracts
\* have outcome type "binary", the YES legs side "YES" and the NO legs side
\* "NO".
C26_OnlyBinaryContracts ==
    analyze_out.done =>
        \A k \in 1..Len(analyze_out.opportunities) :
            LET opp == analyze_out.opportunities[k]
            IN /\ opp.yes_contract_a.outcome_type = "binary"
               /\ opp.no_contract_a.outcome_type = "binary"
               /\ opp.yes_contract_b.outcome_type = "binary"
               /\ opp.no_contract_b.outcome_type = "binary"
               /\ opp.yes_contract_a.side = "YES"
               /\ opp.yes_contract_b.side = "YES"
               /\ opp.no_contract_a.side = "NO"
               /\ opp.no_contract_b.side = "NO"

----------------------------------------------------------------------------
(* Properties of the detector registries, under SpecShare                   *)

FoundBy(heap, det, j) ==
    detect_opportunities(MarketsDictOf(heap, det, j), DefaultMinProfit,
                         DefaultMinSimilarity, << >>, Some(<<CalcPair>>), None)

\* C22: register_markets on one detector never changes the registry of
\* the other detector nor what the other finds in detect_opportunities,
\* however the two were constructed.
C22_RegistriesAreNotShared ==
    [][\A i \in Detectors :
          (share_call'.op = "register_markets" /\ share_call'.inst = i) =>
              \A j \in Detectors \ {i} :
                  /\ MarketsDictOf(share_heap', share_det', j)
                         = MarketsDictOf(share_heap, share_det, j)
                  /\ FoundBy(share_heap', share_det', j)
                         = FoundBy(share_heap, share_det, j)]_vars

----------------------------------------------------------------------------
(* Properties of save_market, under SpecMarkets                             *)

\* C29: after any sequence of save_market calls no call has failed, there
\* is exactly one row for each (source, market_id) saved and no other,
\* and the row holds the name and the contracts of the market last saved
\* under that key.
C29_SaveMarketUpserts ==
    mkt_call.op = "save_market" =>
        /\ mkt_call.raised = None
        /\ DOMAIN mkt_rows = DOMAIN mkt_latest
        /\ \A k \in DOMAIN mkt_latest :
               /\ k \in DOMAIN mkt_rows
               /\ mkt_rows[k].name = mkt_latest[k].name
               /\ {mkt_rows[k].contracts[i] :
                       i \in DOMAIN mkt_rows[k].contracts}
                      = {mkt_latest[k].contracts[i] :
                            i \in DOMAIN mkt_latest[k].contracts}

----------------------------------------------------------------------------
(* Properties of get_matched_pairs, under SpecQuery                         *)

\* The row of the pair of keys k1, k2, in either order, is in the listing.
HoldsPair(listing, k1, k2) ==
    \E i \in 1..Len(listing) :
        {<<listing[i].source_a, listing[i].market_id_a>>,
         <<listing[i].source_b, listing[i].market_id_b>>} = {k1, k2}

\* The query is get_matched_pairs(source_a=sa) or
\* get_matched_pairs(source_b=sb) for the pair the call saved.
AsksForSaved(saved, asked) ==
    /\ asked.min_similarity = 0
    /\ ~asked.confirmed_only
    /\ \/ asked.source_a = Some(saved.source_a) /\ asked.source_b = None
       \/ asked.source_b = Some(saved.source_b) /\ asked.source_a = None

\* C30: get_matched_pairs(source_a=sa) and get_matched_pairs(source_b=sb),
\* called after save_matched_pair(sa, ma, sb, mb, ...) stored a pair,
\* both include that pair, whichever key is the smaller, and the result is
\* in descending order of similarity.
C30_QueryFindsSavedPair ==
    [][(/\ store_call.op = "save_matched_pair"
        /\ ~store_call.raised
        /\ store_call'.op = "get_matched_pairs"
        /\ AsksForSaved(store_call.args, store_call'.args))
       => /\ HoldsPair(store_call'.result,
                       <<store_call.args.source_a, store_call.args.market_id_a>>,
                       <<store_call.args.source_b, store_call.args.market_id_b>>)
          /\ SortedBySimilarity(store_call'.result)]_vars

----------------------------------------------------------------------------
(* Properties of concurrent calls, under SpecThreads                        *)

\* C21: a find_matches call that ran while another find_matches call ran
\* on the same MarketMatcher, and a predict call that ran while another
\* call ran on the same classifier, returns what it returns when it runs
\* alone, for every interleaving.
C21_ConcurrentCallsAsAlone ==
    \A t \in Threads :
        thr_pc[t] = "done" => thr_out[t] = Some(CallAlone(thr_call[t]))

====
